---- MODULE Spec2Model ----
(***************************************************************************)
(* Model of namedzone: the typed projection of a named.conf concrete       *)
(* syntax tree (FromFile), the sub-grammar codecs, and the synchronisation *)
(* of the typed model back into the node list (Apply, Save).               *)
(*                                                                         *)
(* Text is modelled as TLA+ strings handled character by character, so     *)
(* every parse and serialize step does what the Go code does; a text with  *)
(* characters a string of this module cannot hold is a sequence of code    *)
(* points.  A pointer or optional value is a sequence of length at most    *)
(* one (<<>> is nil).  A nil slice and an empty slice are both <<>>.       *)
(***************************************************************************)
EXTENDS Integers, Sequences, FiniteSets, TLC

\* s[lo:hi] with Go's 0-based, half-open indices.
Slice(s, lo, hi) == SubSeq(s, lo + 1, hi)

\* the one-character string s[i] (0-based).
At(s, i) == SubSeq(s, i + 1, i + 1)

(***************************************************************************)
(* Go's unicode package, on code points (runes).                           *)
(***************************************************************************)

\* unicode.IsSpace: '\t', '\n', '\v', '\f', '\r', ' ', U+0085, U+00A0, and
\* past Latin-1 the White_Space code points U+1680, U+2000 to U+200A,
\* U+2028, U+2029, U+202F, U+205F and U+3000.
IsSpaceRune(r) ==
  \/ r \in {9, 10, 11, 12, 13, 32, 133, 160}
  \/ r \in {5760, 8232, 8233, 8239, 8287, 12288}
  \/ r \in 8192..8202

\* unicode.CaseRanges as far as ToLower uses it: <<lo, hi, stride, delta>>
\* says that lo, lo + stride, ... up to hi have the lower-case letter
\* delta further on (the simple lower-case mapping of the Unicode
\* Character Database, version 14.0.0).
LowerRanges ==
  <<
     <<65, 90, 1, 32>>, <<192, 214, 1, 32>>, <<216, 222, 1, 32>>,
     <<256, 302, 2, 1>>, <<304, 304, 1, -199>>, <<306, 310, 2, 1>>,
     <<313, 327, 2, 1>>, <<330, 374, 2, 1>>, <<376, 376, 1, -121>>,
     <<377, 381, 2, 1>>, <<385, 385, 1, 210>>, <<386, 388, 2, 1>>,
     <<390, 390, 1, 206>>, <<391, 391, 1, 1>>, <<393, 394, 1, 205>>,
     <<395, 395, 1, 1>>, <<398, 398, 1, 79>>, <<399, 399, 1, 202>>,
     <<400, 400, 1, 203>>, <<401, 401, 1, 1>>, <<403, 403, 1, 205>>,
     <<404, 404, 1, 207>>, <<406, 406, 1, 211>>, <<407, 407, 1, 209>>,
     <<408, 408, 1, 1>>, <<412, 412, 1, 211>>, <<413, 413, 1, 213>>,
     <<415, 415, 1, 214>>, <<416, 420, 2, 1>>, <<422, 422, 1, 218>>,
     <<423, 423, 1, 1>>, <<425, 425, 1, 218>>, <<428, 428, 1, 1>>,
     <<430, 430, 1, 218>>, <<431, 431, 1, 1>>, <<433, 434, 1, 217>>,
     <<435, 437, 2, 1>>, <<439, 439, 1, 219>>, <<440, 440, 1, 1>>,
     <<444, 444, 1, 1>>, <<452, 452, 1, 2>>, <<453, 453, 1, 1>>,
     <<455, 455, 1, 2>>, <<456, 456, 1, 1>>, <<458, 458, 1, 2>>,
     <<459, 475, 2, 1>>, <<478, 494, 2, 1>>, <<497, 497, 1, 2>>,
     <<498, 500, 2, 1>>, <<502, 502, 1, -97>>, <<503, 503, 1, -56>>,
     <<504, 542, 2, 1>>, <<544, 544, 1, -130>>, <<546, 562, 2, 1>>,
     <<570, 570, 1, 10795>>, <<571, 571, 1, 1>>, <<573, 573, 1, -163>>,
     <<574, 574, 1, 10792>>, <<577, 577, 1, 1>>, <<579, 579, 1, -195>>,
     <<580, 580, 1, 69>>, <<581, 581, 1, 71>>, <<582, 590, 2, 1>>,
     <<880, 882, 2, 1>>, <<886, 886, 1, 1>>, <<895, 895, 1, 116>>,
     <<902, 902, 1, 38>>, <<904, 906, 1, 37>>, <<908, 908, 1, 64>>,
     <<910, 911, 1, 63>>, <<913, 929, 1, 32>>, <<931, 939, 1, 32>>,
     <<975, 975, 1, 8>>, <<984, 1006, 2, 1>>, <<1012, 1012, 1, -60>>,
     <<1015, 1015, 1, 1>>, <<1017, 1017, 1, -7>>, <<1018, 1018, 1, 1>>,
     <<1021, 1023, 1, -130>>, <<1024, 1039, 1, 80>>, <<1040, 1071, 1, 32>>,
     <<1120, 1152, 2, 1>>, <<1162, 1214, 2, 1>>, <<1216, 1216, 1, 15>>,
     <<1217, 1229, 2, 1>>, <<1232, 1326, 2, 1>>, <<1329, 1366, 1, 48>>,
     <<4256, 4293, 1, 7264>>, <<4295, 4295, 1, 7264>>, <<4301, 4301, 1, 7264>>,
     <<5024, 5103, 1, 38864>>, <<5104, 5109, 1, 8>>, <<7312, 7354, 1, -3008>>,
     <<7357, 7359, 1, -3008>>, <<7680, 7828, 2, 1>>, <<7838, 7838, 1, -7615>>,
     <<7840, 7934, 2, 1>>, <<7944, 7951, 1, -8>>, <<7960, 7965, 1, -8>>,
     <<7976, 7983, 1, -8>>, <<7992, 7999, 1, -8>>, <<8008, 8013, 1, -8>>,
     <<8025, 8031, 2, -8>>, <<8040, 8047, 1, -8>>, <<8072, 8079, 1, -8>>,
     <<8088, 8095, 1, -8>>, <<8104, 8111, 1, -8>>, <<8120, 8121, 1, -8>>,
     <<8122, 8123, 1, -74>>, <<8124, 8124, 1, -9>>, <<8136, 8139, 1, -86>>,
     <<8140, 8140, 1, -9>>, <<8152, 8153, 1, -8>>, <<8154, 8155, 1, -100>>,
     <<8168, 8169, 1, -8>>, <<8170, 8171, 1, -112>>, <<8172, 8172, 1, -7>>,
     <<8184, 8185, 1, -128>>, <<8186, 8187, 1, -126>>, <<8188, 8188, 1, -9>>,
     <<8486, 8486, 1, -7517>>, <<8490, 8490, 1, -8383>>, <<8491, 8491, 1, -8262>>,
     <<8498, 8498, 1, 28>>, <<8544, 8559, 1, 16>>, <<8579, 8579, 1, 1>>,
     <<9398, 9423, 1, 26>>, <<11264, 11311, 1, 48>>, <<11360, 11360, 1, 1>>,
     <<11362, 11362, 1, -10743>>, <<11363, 11363, 1, -3814>>, <<11364, 11364, 1, -10727>>,
     <<11367, 11371, 2, 1>>, <<11373, 11373, 1, -10780>>, <<11374, 11374, 1, -10749>>,
     <<11375, 11375, 1, -10783>>, <<11376, 11376, 1, -10782>>, <<11378, 11378, 1, 1>>,
     <<11381, 11381, 1, 1>>, <<11390, 11391, 1, -10815>>, <<11392, 11490, 2, 1>>,
     <<11499, 11501, 2, 1>>, <<11506, 11506, 1, 1>>, <<42560, 42604, 2, 1>>,
     <<42624, 42650, 2, 1>>, <<42786, 42798, 2, 1>>, <<42802, 42862, 2, 1>>,
     <<42873, 42875, 2, 1>>, <<42877, 42877, 1, -35332>>, <<42878, 42886, 2, 1>>,
     <<42891, 42891, 1, 1>>, <<42893, 42893, 1, -42280>>, <<42896, 42898, 2, 1>>,
     <<42902, 42920, 2, 1>>, <<42922, 42922, 1, -42308>>, <<42923, 42923, 1, -42319>>,
     <<42924, 42924, 1, -42315>>, <<42925, 42925, 1, -42305>>, <<42926, 42926, 1, -42308>>,
     <<42928, 42928, 1, -42258>>, <<42929, 42929, 1, -42282>>, <<42930, 42930, 1, -42261>>,
     <<42931, 42931, 1, 928>>, <<42932, 42946, 2, 1>>, <<42948, 42948, 1, -48>>,
     <<42949, 42949, 1, -42307>>, <<42950, 42950, 1, -35384>>, <<42951, 42953, 2, 1>>,
     <<42960, 42960, 1, 1>>, <<42966, 42968, 2, 1>>, <<42997, 42997, 1, 1>>,
     <<65313, 65338, 1, 32>>, <<66560, 66599, 1, 40>>, <<66736, 66771, 1, 40>>,
     <<66928, 66938, 1, 39>>, <<66940, 66954, 1, 39>>, <<66956, 66962, 1, 39>>,
     <<66964, 66965, 1, 39>>, <<68736, 68786, 1, 64>>, <<71840, 71871, 1, 32>>,
     <<93760, 93791, 1, 32>>, <<125184, 125217, 1, 34>>
  >>

\* unicode.ToLower
ToLowerRune(r) ==
  IF \E k \in 1..Len(LowerRanges) :
       /\ LowerRanges[k][1] <= r /\ r <= LowerRanges[k][2]
       /\ (r - LowerRanges[k][1]) % LowerRanges[k][3] = 0
  THEN LET k == CHOOSE k \in 1..Len(LowerRanges) :
                  /\ LowerRanges[k][1] <= r /\ r <= LowerRanges[k][2]
                  /\ (r - LowerRanges[k][1]) % LowerRanges[k][3] = 0
       IN r + LowerRanges[k][4]
  ELSE r

(***************************************************************************)
(* The characters of a string and their code points.  The table names     *)
(* the characters of ASCII and, when the module's text is read as UTF-8,   *)
(* those of WideChars.  A character outside the table has no code point    *)
(* here: the operators that go through RuneOf have no value for it.        *)
(***************************************************************************)

\* the vertical tab U+000B, written as the character itself.
VerticalTab == ""

\* the grave accent U+0060, taken from a two-character string because the
\* lexer pairs a grave accent with the apostrophe that follows it.
Backtick == SubSeq("`'", 1, 1)

\* U+0001 to U+007F, the control characters written as themselves.
AsciiChars ==
  "\t\n" \o VerticalTab \o "\f\r"
  \o " !\"#$%&'()*+,-./0123456789:;<=>?@ABCDEFGHIJKLMN"
  \o "OPQRSTUVWXYZ[\\]^_" \o Backtick \o "abcdefghijklmnopqrstuvwxyz{|}~"

AsciiCodes == [i \in 1..127 |-> i]

\* U+0080 to U+00FF, U+1680 and U+FFFD, written as the characters
\* themselves.
WideChars ==
  " ¡¢£¤¥¦§¨©ª«¬­®¯°±²³´µ¶·¸¹º»¼½¾¿"
  \o "ÀÁÂÃÄÅÆÇÈÉÊËÌÍÎÏÐÑÒÓÔÕÖ×ØÙÚÛÜÝÞßàáâãäåæçèéêëìíîïðñòóôõö÷øùúûüýþÿ �"

WideCodes == [i \in 1..128 |-> 127 + i] \o <<5760, 65533>>

\* the module's text was read as UTF-8, so that WideChars is those 130
\* characters; read byte by byte it is longer and its characters are
\* not the ones named.
WideCharsRead == Len(WideChars) = Len(WideCodes)

NamedChars == IF WideCharsRead THEN AsciiChars \o WideChars ELSE AsciiChars

NamedCodes == IF WideCharsRead THEN AsciiCodes \o WideCodes ELSE AsciiCodes

\* the code point of each character of the table.
CharRunes ==
  [c \in {SubSeq(NamedChars, i, i) : i \in 1..Len(NamedChars)} |->
     NamedCodes[CHOOSE i \in 1..Len(NamedChars) : SubSeq(NamedChars, i, i) = c]]

\* the character of each of those code points.
RuneChars ==
  [r \in {NamedCodes[i] : i \in 1..Len(NamedCodes)} |->
     LET i == CHOOSE i \in 1..Len(NamedCodes) : NamedCodes[i] = r
     IN SubSeq(NamedChars, i, i)]

\* the code point of the one-character string c, a character of the table.
RuneOf(c) == CharRunes[c]

\* []rune(s)
Runes(s) == [i \in 1..Len(s) |-> RuneOf(SubSeq(s, i, i))]

(***************************************************************************)
(* Go strings package, as used by the source.                              *)
(***************************************************************************)

\* the White_Space characters past ASCII that a string of this module can
\* hold: U+0085, U+00A0 and U+1680, written as the characters themselves
\* (U+2000 and above cannot be written in a string here).
WideSpaceChars == "  "

\* the module's text was read as UTF-8, so that WideSpaceChars is those
\* three characters.
WideSpaceCharsRead == Len(WideSpaceChars) = 3

\* unicode.IsSpace, as strings.TrimSpace and strings.Fields use it:
\* IsSpaceRune(RuneOf(c)), written out over the characters of a string.
\* When the module's text is read byte by byte, a character past ASCII
\* stands for a byte of a character that is not known, and whether it is
\* white space has no value.
IsSpace(c) ==
  \/ c \in {" ", "\t", "\n", "\f", "\r", VerticalTab}
  \/ IF WideSpaceCharsRead
     THEN \E i \in 1..3 : c = SubSeq(WideSpaceChars, i, i)
     ELSE c = SubSeq(WideSpaceChars, 1, 1) /\ CHOOSE known \in {} : TRUE

HasPrefix(s, p) == Len(s) >= Len(p) /\ Slice(s, 0, Len(p)) = p

HasSuffix(s, p) == Len(s) >= Len(p) /\ Slice(s, Len(s) - Len(p), Len(s)) = p

TrimPrefix(s, p) == IF HasPrefix(s, p) THEN Slice(s, Len(p), Len(s)) ELSE s

TrimSuffix(s, p) == IF HasSuffix(s, p) THEN Slice(s, 0, Len(s) - Len(p)) ELSE s

RECURSIVE SkipSpaceL(_, _)
SkipSpaceL(s, i) ==
  IF i < Len(s) /\ IsSpace(At(s, i)) THEN SkipSpaceL(s, i + 1) ELSE i

RECURSIVE SkipSpaceR(_, _, _)
SkipSpaceR(s, lo, j) ==
  IF j > lo /\ IsSpace(At(s, j - 1)) THEN SkipSpaceR(s, lo, j - 1) ELSE j

TrimSpace(s) ==
  LET lo == SkipSpaceL(s, 0)
      hi == SkipSpaceR(s, lo, Len(s))
  IN Slice(s, lo, hi)

RECURSIVE SkipCharL(_, _, _)
SkipCharL(s, c, i) ==
  IF i < Len(s) /\ At(s, i) = c THEN SkipCharL(s, c, i + 1) ELSE i

RECURSIVE SkipCharR(_, _, _, _)
SkipCharR(s, c, lo, j) ==
  IF j > lo /\ At(s, j - 1) = c THEN SkipCharR(s, c, lo, j - 1) ELSE j

\* strings.Trim(s, cutset) for a cutset of one character.
Trim(s, c) ==
  LET lo == SkipCharL(s, c, 0)
      hi == SkipCharR(s, c, lo, Len(s))
  IN Slice(s, lo, hi)

RECURSIVE IndexFrom(_, _, _)
IndexFrom(s, sub, i) ==
  IF i + Len(sub) > Len(s) THEN -1
  ELSE IF Slice(s, i, i + Len(sub)) = sub THEN i
  ELSE IndexFrom(s, sub, i + 1)

\* strings.Index: the 0-based offset of the first occurrence, or -1.
Index(s, sub) == IndexFrom(s, sub, 0)

Contains(s, sub) == Index(s, sub) >= 0

RECURSIVE ContainsAnyFrom(_, _, _)
ContainsAnyFrom(s, chars, i) ==
  IF i >= Len(s) THEN FALSE
  ELSE IF Contains(chars, At(s, i)) THEN TRUE
  ELSE ContainsAnyFrom(s, chars, i + 1)

ContainsAny(s, chars) == ContainsAnyFrom(s, chars, 0)

RECURSIVE CountFrom(_, _, _)
CountFrom(s, sub, i) ==
  LET k == IndexFrom(s, sub, i)
  IN IF k < 0 THEN 0 ELSE 1 + CountFrom(s, sub, k + Len(sub))

\* strings.Count for a non-empty substring (non-overlapping occurrences).
Count(s, sub) == CountFrom(s, sub, 0)

RECURSIVE Split(_, _)
\* strings.Split for a non-empty separator.
Split(s, sep) ==
  LET k == Index(s, sep)
  IN IF k < 0 THEN <<s>>
     ELSE <<Slice(s, 0, k)>> \o Split(Slice(s, k + Len(sep), Len(s)), sep)

RECURSIVE WordEnd(_, _)
WordEnd(s, i) ==
  IF i < Len(s) /\ ~IsSpace(At(s, i)) THEN WordEnd(s, i + 1) ELSE i

RECURSIVE FieldsFrom(_, _)
FieldsFrom(s, i) ==
  LET a == SkipSpaceL(s, i)
      b == WordEnd(s, a)
  IN IF a >= Len(s) THEN <<>>
     ELSE <<Slice(s, a, b)>> \o FieldsFrom(s, b)

\* strings.Fields: the maximal runs of non-space characters.
Fields(s) == FieldsFrom(s, 0)

RECURSIVE Join(_, _)
Join(ss, sep) ==
  IF Len(ss) = 0 THEN ""
  ELSE IF Len(ss) = 1 THEN ss[1]
  ELSE ss[1] \o sep \o Join(Tail(ss), sep)

UpperChars == "ABCDEFGHIJKLMNOPQRSTUVWXYZ"
LowerChars == "abcdefghijklmnopqrstuvwxyz"
DigitChars == "0123456789"

IsLower(c) == Len(c) = 1 /\ Contains(LowerChars, c)
IsUpper(c) == Len(c) = 1 /\ Contains(UpperChars, c)
IsDigit(c) == Len(c) = 1 /\ Contains(DigitChars, c)

\* the character unicode.ToLower gives for the character c.
LowerChar(c) == RuneChars[ToLowerRune(RuneOf(c))]

RECURSIVE ToLower(_)
\* strings.ToLower
ToLower(s) ==
  IF Len(s) = 0 THEN ""
  ELSE LowerChar(At(s, 0)) \o ToLower(Slice(s, 1, Len(s)))

(***************************************************************************)
(* The same functions of the strings package on a text given as its code   *)
(* points, for texts with characters no string of this module holds.       *)
(***************************************************************************)

RECURSIVE SkipSpaceRunes(_, _)
SkipSpaceRunes(rs, i) ==
  IF i <= Len(rs) /\ IsSpaceRune(rs[i]) THEN SkipSpaceRunes(rs, i + 1) ELSE i

RECURSIVE WordEndRunes(_, _)
WordEndRunes(rs, i) ==
  IF i <= Len(rs) /\ ~IsSpaceRune(rs[i]) THEN WordEndRunes(rs, i + 1) ELSE i

RECURSIVE FieldsRunesFrom(_, _)
FieldsRunesFrom(rs, i) ==
  LET a == SkipSpaceRunes(rs, i)
      b == WordEndRunes(rs, a)
  IN IF a > Len(rs) THEN <<>>
     ELSE <<SubSeq(rs, a, b - 1)>> \o FieldsRunesFrom(rs, b)

\* strings.Fields
FieldsRunes(rs) == FieldsRunesFrom(rs, 1)

RECURSIVE SkipSpaceBackRunes(_, _, _)
SkipSpaceBackRunes(rs, lo, j) ==
  IF j >= lo /\ IsSpaceRune(rs[j]) THEN SkipSpaceBackRunes(rs, lo, j - 1) ELSE j

\* strings.TrimSpace
TrimSpaceRunes(rs) ==
  LET lo == SkipSpaceRunes(rs, 1)
  IN SubSeq(rs, lo, SkipSpaceBackRunes(rs, lo, Len(rs)))

\* strings.ToLower
ToLowerRunes(rs) == [i \in 1..Len(rs) |-> ToLowerRune(rs[i])]

(***************************************************************************)
(* strconv.Atoi and strconv.Itoa.  Go's int has 64 bits, more than an      *)
(* integer of the model checker, so an int of the program is a sign and a  *)
(* magnitude: [neg, mag], mag the decimal digits as numbers, most          *)
(* significant first and without leading zeros (<<0>> for zero).           *)
(***************************************************************************)
\* the digits of a numeral as numbers: DigitsOf("53") = <<5, 3>>.
DigitsOf(s) == [i \in 1..Len(s) |-> Index(DigitChars, At(s, i - 1))]

RECURSIVE StripZeros(_)
\* a digit sequence without its leading zeros.
StripZeros(d) == IF Len(d) > 1 /\ d[1] = 0 THEN StripZeros(Tail(d)) ELSE d

RECURSIVE DigitsGreaterFrom(_, _, _)
DigitsGreaterFrom(a, b, i) ==
  IF i > Len(a) THEN FALSE
  ELSE IF a[i] # b[i] THEN a[i] > b[i]
  ELSE DigitsGreaterFrom(a, b, i + 1)

\* a > b for magnitudes without leading zeros.
MagGreater(a, b) ==
  IF Len(a) # Len(b) THEN Len(a) > Len(b) ELSE DigitsGreaterFrom(a, b, 1)

\* 1<<64 - 1, 1<<63 - 1 and 1<<63.
MaxUint64 == DigitsOf("18446744073709551615")
MaxInt64  == DigitsOf("9223372036854775807")
MinInt64  == DigitsOf("9223372036854775808")

RECURSIVE NatStr(_)
NatStr(n) ==
  IF n < 10 THEN At(DigitChars, n)
  ELSE NatStr(n \div 10) \o At(DigitChars, n % 10)

\* the int of the program whose value is the small number n.
GoInt(n) == [neg |-> n < 0, mag |-> DigitsOf(NatStr(IF n < 0 THEN 0 - n ELSE n))]

RECURSIVE DigitRun(_, _)
\* the end of the run of digits of s that starts at offset i.
DigitRun(s, i) ==
  IF i < Len(s) /\ IsDigit(At(s, i)) THEN DigitRun(s, i + 1) ELSE i

\* n, err := strconv.Atoi(s), err being "nil", "syntax" or "range".  The
\* scan stops with a range error at the digit that takes the value past
\* 64 bits, before it looks at what follows; a value past the int range
\* is returned as the nearest int, with a range error.
Atoi(s) ==
  LET neg  == HasPrefix(s, "-")
      body == IF neg \/ HasPrefix(s, "+") THEN Slice(s, 1, Len(s)) ELSE s
      k    == DigitRun(body, 0)
      mag  == StripZeros(DigitsOf(Slice(body, 0, k)))
      lim  == IF neg THEN MinInt64 ELSE MaxInt64
  IN IF k > 0 /\ MagGreater(mag, MaxUint64)
     THEN [n |-> [neg |-> neg, mag |-> lim], err |-> "range"]
     ELSE IF Len(body) = 0 \/ k < Len(body)
     THEN [n |-> GoInt(0), err |-> "syntax"]
     ELSE IF MagGreater(mag, lim)
     THEN [n |-> [neg |-> neg, mag |-> lim], err |-> "range"]
     ELSE [n |-> [neg |-> neg /\ mag # <<0>>, mag |-> mag], err |-> "nil"]

RECURSIVE DigitsStr(_)
DigitsStr(d) ==
  IF Len(d) = 0 THEN "" ELSE At(DigitChars, d[1]) \o DigitsStr(Tail(d))

Itoa(n) == (IF n.neg THEN "-" ELSE "") \o DigitsStr(n.mag)

(***************************************************************************)
(* parse_helpers.go: token codecs.                                         *)
(***************************************************************************)

trimQuotes(s) == Trim(TrimSpace(s), "\"")

boolWord(b) == IF b THEN "yes" ELSE "no"

quoteEach(ss) == [i \in 1..Len(ss) |-> "\"" \o ss[i] \o "\""]

\* a decoder that reads every word other than 'yes' as false
parseBoolPtrDefaultsFalse(rs) ==
  LET w == FieldsRunes(rs)
  IN IF Len(w) > 0 /\ ToLowerRunes(w[1]) = Runes("yes")
     THEN <<TRUE>> ELSE <<FALSE>>

\* parseBoolPtr on the code points of raw; *bool: <<>> is nil.
parseBoolPtrRunes(rs) ==
  LET w == FieldsRunes(rs)
  IN IF Len(w) = 0 THEN <<>>
     ELSE IF ToLowerRunes(w[1]) = Runes("yes") THEN <<TRUE>>
     ELSE IF ToLowerRunes(w[1]) = Runes("no") THEN <<FALSE>>
     ELSE <<>>

parseBoolPtr(raw) == parseBoolPtrRunes(Runes(raw))

\* *int: <<>> is nil.
parseIntPtr(raw) ==
  LET w == Fields(raw)
  IN IF Len(w) = 0 THEN <<>>
     ELSE IF Atoi(w[1]).err = "nil" THEN <<Atoi(w[1]).n>>
     ELSE <<>>

RECURSIVE StringListParts(_)
StringListParts(parts) ==
  IF Len(parts) = 0 THEN <<>>
  ELSE LET p == TrimSpace(parts[1])
       IN (IF p = "" THEN <<>> ELSE <<trimQuotes(p)>>)
          \o StringListParts(Tail(parts))

parseStringList(raw0) ==
  LET raw1 == TrimSpace(raw0)
      raw  == IF HasPrefix(raw1, "{")
              THEN TrimSuffix(TrimPrefix(raw1, "{"), "}") ELSE raw1
  IN StringListParts(Split(raw, ";"))

(***************************************************************************)
(* Header metadata: rxHeadName, rxHeadClass and the whitespace fallback.   *)
(***************************************************************************)

IsHeadKwChar(c) == IsLower(c) \/ c = "-"
\* \s of Go's regexp: [\t\n\f\r ]
IsRxSpace(c) == c \in {" ", "\t", "\n", "\f", "\r"}
IsLetter(c) == IsLower(c) \/ IsUpper(c)

RECURSIVE RunKw(_, _)
RunKw(s, i) == IF i < Len(s) /\ IsHeadKwChar(At(s, i)) THEN RunKw(s, i + 1) ELSE i

RECURSIVE RunRxSpace(_, _)
RunRxSpace(s, i) == IF i < Len(s) /\ IsRxSpace(At(s, i)) THEN RunRxSpace(s, i + 1) ELSE i

RECURSIVE RunNotQuote(_, _)
RunNotQuote(s, i) == IF i < Len(s) /\ At(s, i) # "\"" THEN RunNotQuote(s, i + 1) ELSE i

RECURSIVE RunLetter(_, _)
RunLetter(s, i) == IF i < Len(s) /\ IsLetter(At(s, i)) THEN RunLetter(s, i + 1) ELSE i

\* ^[a-z-]+\s+"([^"]+)" : <<end offset, name>> of the match, or <<>>.
rxHeadNameMatch(h) ==
  LET a == RunKw(h, 0)
      b == RunRxSpace(h, a)
      c == RunNotQuote(h, b + 1)
  IN IF a > 0 /\ b > a /\ b < Len(h) /\ At(h, b) = "\""
        /\ c > b + 1 /\ c < Len(h) /\ At(h, c) = "\""
     THEN <<c + 1, Slice(h, b + 1, c)>>
     ELSE <<>>

\* rxHeadName.FindStringSubmatch: <<name>> or <<>>.
rxHeadName(h) ==
  LET m == rxHeadNameMatch(h) IN IF m = <<>> THEN <<>> ELSE <<m[2]>>

\* ^[a-z-]+\s+"[^"]+"\s+([A-Za-z]+) : <<class>> or <<>>.
rxHeadClass(h) ==
  LET m == rxHeadNameMatch(h)
  IN IF m = <<>> THEN <<>>
     ELSE LET d == RunRxSpace(h, m[1])
              e == RunLetter(h, d)
          IN IF d > m[1] /\ e > d THEN <<Slice(h, d, e)>> ELSE <<>>

\* headNameAfter(s, kw); the kw parameter is unused by the source.
headNameAfter(HeadRaw) ==
  LET h == TrimSpace(HeadRaw)
      m == rxHeadName(h)
      f == Fields(h)
  IN IF m # <<>> THEN m[1]
     ELSE IF Len(f) > 1 THEN trimQuotes(f[2])
     ELSE ""

headClassAfter(HeadRaw) ==
  LET h == TrimSpace(HeadRaw)
      m == rxHeadClass(h)
  IN IF m # <<>> THEN m[1] ELSE ""

(***************************************************************************)
(* The concrete syntax tree of the namedconf package: a node is a          *)
(* statement (Keyword, HeadRaw, Body) or a raw fragment (Text).            *)
(***************************************************************************)

Raw(text) ==
  [kind |-> "raw", Keyword |-> "", HeadRaw |-> "", Text |-> text, Body |-> <<>>]

Stmt(kw, head, body) ==
  [kind |-> "stmt", Keyword |-> kw, HeadRaw |-> head, Text |-> "", Body |-> body]

IsStmt(n) == n.kind = "stmt"

\* strings.TrimSpace(strings.TrimSuffix(st.HeadRaw, ";")), the text every
\* parser reads from a statement.
headText(st) == TrimSpace(TrimSuffix(st.HeadRaw, ";"))

(***************************************************************************)
(* Address match lists.                                                     *)
(***************************************************************************)

MatchTerm0 ==
  [Not |-> FALSE, Address |-> "", Key |-> "", ACLRef |-> "", Nested |-> <<>>]

RECURSIVE parseMatchListFromBodyRaw(_)
RECURSIVE matchTermsOf(_)

\* the loop body of parseMatchListFromBodyRaw over the ';'-separated parts.
matchTermsOf(parts) ==
  IF Len(parts) = 0 THEN <<>>
  ELSE
    LET p0  == TrimSpace(parts[1])
        neg == HasPrefix(p0, "!")
        p   == IF neg THEN TrimSpace(TrimPrefix(p0, "!")) ELSE p0
        mt  == [MatchTerm0 EXCEPT !.Not = neg]
        one ==
          IF HasPrefix(p, "key ")
            THEN [mt EXCEPT !.Key = trimQuotes(TrimPrefix(p, "key "))]
          ELSE IF HasPrefix(p, "{")
            THEN [mt EXCEPT !.Nested = parseMatchListFromBodyRaw(p)]
          ELSE IF Contains(p, "/") \/ Count(p, ":") > 1 \/ Count(p, ".") = 3
            THEN [mt EXCEPT !.Address = p]
          ELSE [mt EXCEPT !.ACLRef = trimQuotes(p)]
    IN (IF p0 = "" THEN <<>> ELSE <<one>>) \o matchTermsOf(Tail(parts))

parseMatchListFromBodyRaw(raw0) ==
  LET raw1 == TrimSpace(raw0)
      raw  == IF HasPrefix(raw1, "{")
              THEN TrimSpace(TrimSuffix(TrimPrefix(raw1, "{"), "}"))
              ELSE raw1
  IN matchTermsOf(Split(raw, ";"))

parseMatchList(raw) ==
  IF ~Contains(raw, "{") THEN <<>> ELSE parseMatchListFromBodyRaw(raw)

RECURSIVE stmtAddresses(_)
stmtAddresses(body) ==
  IF Len(body) = 0 THEN <<>>
  ELSE (IF IsStmt(body[1])
        THEN <<[MatchTerm0 EXCEPT !.Address = headText(body[1])]>>
        ELSE <<>>) \o stmtAddresses(Tail(body))

parseMatchListFromBody(s) ==
  IF Len(s.Body) = 0 THEN <<>>
  ELSE IF ~IsStmt(s.Body[1]) THEN parseMatchListFromBodyRaw(s.Body[1].Text)
  ELSE stmtAddresses(s.Body)

needsQuotes(s) == ContainsAny(s, ".-* ")

RECURSIVE serializeMatchList(_)
RECURSIVE serializeMatchTerms(_, _)

serializeMatchTerms(terms, i) ==
  IF i > Len(terms) THEN ""
  ELSE
    LET t == terms[i]
        body ==
          IF Len(t.Nested) > 0 THEN serializeMatchList(t.Nested)
          ELSE IF t.Key # "" THEN "key \"" \o t.Key \o "\""
          ELSE IF t.Address # "" THEN t.Address
          ELSE IF t.ACLRef # ""
            THEN (IF needsQuotes(t.ACLRef)
                  THEN "\"" \o t.ACLRef \o "\"" ELSE t.ACLRef)
          ELSE ""
    IN (IF i > 1 THEN " " ELSE "") \o (IF t.Not THEN "!" ELSE "")
       \o body \o ";" \o serializeMatchTerms(terms, i + 1)

serializeMatchList(terms) == "{ " \o serializeMatchTerms(terms, 1) \o " }"

(***************************************************************************)
(* listen-on clauses.                                                       *)
(***************************************************************************)

Listen0 == [Port |-> <<>>, TLS |-> "", HTTP |-> "", Addrs |-> <<>>]

RECURSIVE listenFields(_, _, _)
\* the keyword loop of parseListen; i is the 0-based loop index.
listenFields(f, i, L) ==
  IF i >= Len(f) THEN L
  ELSE IF f[i + 1] = "port" /\ i + 1 < Len(f)
    THEN listenFields(f, i + 2,
           IF Atoi(f[i + 2]).err = "nil" THEN [L EXCEPT !.Port = <<Atoi(f[i + 2]).n>>] ELSE L)
  ELSE IF f[i + 1] = "tls" /\ i + 1 < Len(f)
    THEN listenFields(f, i + 2, [L EXCEPT !.TLS = trimQuotes(f[i + 2])])
  ELSE IF f[i + 1] = "http" /\ i + 1 < Len(f)
    THEN listenFields(f, i + 2, [L EXCEPT !.HTTP = trimQuotes(f[i + 2])])
  ELSE listenFields(f, i + 1, L)

\* parseListen returns *Listen, never nil; the model gives the value.
parseListen(raw0) ==
  LET lb  == Index(raw0, "{")
      L1  == IF lb >= 0
             THEN [Listen0 EXCEPT !.Addrs =
                     parseMatchListFromBodyRaw(TrimSpace(Slice(raw0, lb, Len(raw0))))]
             ELSE Listen0
      raw == IF lb >= 0 THEN TrimSpace(Slice(raw0, 0, lb)) ELSE raw0
  IN listenFields(Fields(raw), 0, L1)

serializeListen(l) ==
  LET pre == (IF l.Port # <<>> THEN <<"port " \o Itoa(l.Port[1])>> ELSE <<>>)
             \o (IF l.TLS # "" THEN <<"tls \"" \o l.TLS \o "\"">> ELSE <<>>)
             \o (IF l.HTTP # "" THEN <<"http \"" \o l.HTTP \o "\"">> ELSE <<>>)
  IN TrimSpace(Join(pre, " ")) \o " " \o serializeMatchList(l.Addrs)

(***************************************************************************)
(* forwarders and remote-server lists.                                      *)
(***************************************************************************)

Forwarder0 == [Address |-> "", Port |-> <<>>, TLS |-> ""]

RECURSIVE forwarderFields(_, _, _)
forwarderFields(f, i, it) ==
  IF i >= Len(f) THEN it
  ELSE IF f[i + 1] = "port" /\ i + 1 < Len(f)
    THEN forwarderFields(f, i + 2,
           IF Atoi(f[i + 2]).err = "nil" THEN [it EXCEPT !.Port = <<Atoi(f[i + 2]).n>>] ELSE it)
  ELSE IF f[i + 1] = "tls" /\ i + 1 < Len(f)
    THEN forwarderFields(f, i + 2, [it EXCEPT !.TLS = trimQuotes(f[i + 2])])
  ELSE forwarderFields(f, i + 1, it)

RECURSIVE forwarderParts(_)
forwarderParts(parts) ==
  IF Len(parts) = 0 THEN <<>>
  ELSE LET p == TrimSpace(parts[1])
           f == Fields(p)
       IN (IF p = "" \/ Len(f) = 0 THEN <<>>
           ELSE <<forwarderFields(f, 1, [Forwarder0 EXCEPT !.Address = f[1]])>>)
          \o forwarderParts(Tail(parts))

parseForwarders(raw0) ==
  LET raw1 == TrimSpace(raw0)
      raw  == IF HasPrefix(raw1, "{")
              THEN TrimSpace(TrimSuffix(TrimPrefix(raw1, "{"), "}"))
              ELSE raw1
  IN forwarderParts(Split(raw, ";"))

forwarderText(f) ==
  f.Address
  \o (IF f.Port # <<>> THEN " port " \o Itoa(f.Port[1]) ELSE "")
  \o (IF f.TLS # "" THEN " tls \"" \o f.TLS \o "\"" ELSE "")

serializeForwarders(ff) ==
  "{ " \o Join([i \in 1..Len(ff) |-> forwarderText(ff[i])], "; ") \o "; }"

RemoteServerItem0 == [Address |-> "", Port |-> <<>>, Key |-> "", TLS |-> ""]

RECURSIVE remoteItemFields(_, _, _)
remoteItemFields(f, i, it) ==
  IF i >= Len(f) THEN it
  ELSE IF f[i + 1] = "port" /\ i + 1 < Len(f)
    THEN remoteItemFields(f, i + 2,
           IF Atoi(f[i + 2]).err = "nil" THEN [it EXCEPT !.Port = <<Atoi(f[i + 2]).n>>] ELSE it)
  ELSE IF f[i + 1] = "key" /\ i + 1 < Len(f)
    THEN remoteItemFields(f, i + 2, [it EXCEPT !.Key = trimQuotes(f[i + 2])])
  ELSE IF f[i + 1] = "tls" /\ i + 1 < Len(f)
    THEN remoteItemFields(f, i + 2, [it EXCEPT !.TLS = trimQuotes(f[i + 2])])
  ELSE remoteItemFields(f, i + 1, it)

parseRemoteServerItem(raw) ==
  LET f == Fields(raw)
  IN remoteItemFields(f, 1,
       IF Len(f) > 0 THEN [RemoteServerItem0 EXCEPT !.Address = f[1]]
       ELSE RemoteServerItem0)

serializeRemoteServerItem(it) ==
  it.Address
  \o (IF it.Port # <<>> THEN " port " \o Itoa(it.Port[1]) ELSE "")
  \o (IF it.Key # "" THEN " key \"" \o it.Key \o "\"" ELSE "")
  \o (IF it.TLS # "" THEN " tls \"" \o it.TLS \o "\"" ELSE "")

RECURSIVE remoteListLines(_)
remoteListLines(lines) ==
  IF Len(lines) = 0 THEN <<>>
  ELSE LET line == TrimSpace(lines[1])
       IN (IF line = "" THEN <<>> ELSE <<parseRemoteServerItem(line)>>)
          \o remoteListLines(Tail(lines))

parseRemoteServerListBody(raw0) ==
  LET raw1 == TrimSpace(raw0)
      raw  == IF HasPrefix(raw1, "{")
              THEN TrimSpace(TrimSuffix(TrimPrefix(raw1, "{"), "}"))
              ELSE raw1
  IN remoteListLines(Split(raw, ";"))

serializeRemoteServerList(items) ==
  "{ " \o Join([i \in 1..Len(items) |-> serializeRemoteServerItem(items[i])], "; ")
  \o "; }"

(***************************************************************************)
(* controls: inet and unix channels.                                        *)
(***************************************************************************)

ControlInet0 ==
  [Address |-> "", Port |-> <<>>, Allow |-> <<>>, Keys |-> <<>>, ReadOnly |-> <<>>]

RECURSIVE inetPortFields(_, _, _)
inetPortFields(f, i, ci) ==
  IF i >= Len(f) THEN ci
  ELSE IF f[i + 1] = "port" /\ i + 1 < Len(f)
    THEN inetPortFields(f, i + 2,
           IF Atoi(f[i + 2]).err = "nil" THEN [ci EXCEPT !.Port = <<Atoi(f[i + 2]).n>>] ELSE ci)
  ELSE inetPortFields(f, i + 1, ci)

parseControlInet(raw0) ==
  LET raw1 == TrimPrefix(raw0, "inet ")
      ia   == Index(raw1, " allow ")
      ci1  == IF ia >= 0
              THEN [ControlInet0 EXCEPT !.Allow =
                      parseMatchList(Slice(raw1, ia + Len(" allow "), Len(raw1)))]
              ELSE ControlInet0
      raw2 == IF ia >= 0 THEN TrimSpace(Slice(raw1, 0, ia)) ELSE raw1
      ik   == Index(raw2, " keys ")
      ci2  == IF ik >= 0
              THEN [ci1 EXCEPT !.Keys =
                      parseStringList(Slice(raw2, ik + Len(" keys "), Len(raw2)))]
              ELSE ci1
      raw3 == IF ik >= 0 THEN TrimSpace(Slice(raw2, 0, ik)) ELSE raw2
      ro   == Contains(raw3, " read-only ")
      pts  == Split(raw3, " read-only ")
      ci3  == IF ro THEN [ci2 EXCEPT !.ReadOnly = parseBoolPtr(TrimSpace(pts[2]))]
              ELSE ci2
      raw4 == IF ro THEN TrimSpace(pts[1]) ELSE raw3
      f    == Fields(raw4)
      ci4  == IF Len(f) > 0 THEN [ci3 EXCEPT !.Address = f[1]] ELSE ci3
  IN inetPortFields(f, 1, ci4)

serializeControlInet(ci) ==
  "inet " \o ci.Address
  \o (IF ci.Port # <<>> THEN " port " \o Itoa(ci.Port[1]) ELSE "")
  \o " allow " \o serializeMatchList(ci.Allow)
  \o (IF Len(ci.Keys) > 0
      THEN " keys { " \o Join(quoteEach(ci.Keys), "; ") \o "; }" ELSE "")
  \o (IF ci.ReadOnly # <<>> THEN " read-only " \o boolWord(ci.ReadOnly[1]) ELSE "")

ControlUnix0 ==
  [Path |-> "", Perm |-> GoInt(0), Owner |-> GoInt(0), Group |-> GoInt(0), Keys |-> <<>>,
   ReadOnly |-> <<>>]

\* n, _ = strconv.Atoi(s): the value Atoi returns, its error dropped.
atoiValue(s) == Atoi(s).n

parseControlUnix(raw0) ==
  LET raw1 == TrimPrefix(raw0, "unix ")
      ik   == Index(raw1, " keys ")
      cu1  == IF ik >= 0
              THEN [ControlUnix0 EXCEPT !.Keys =
                      parseStringList(Slice(raw1, ik + Len(" keys "), Len(raw1)))]
              ELSE ControlUnix0
      raw2 == IF ik >= 0 THEN TrimSpace(Slice(raw1, 0, ik)) ELSE raw1
      ro   == Contains(raw2, " read-only ")
      pts  == Split(raw2, " read-only ")
      cu2  == IF ro THEN [cu1 EXCEPT !.ReadOnly = parseBoolPtr(TrimSpace(pts[2]))]
              ELSE cu1
      raw3 == IF ro THEN TrimSpace(pts[1]) ELSE raw2
      f    == Fields(raw3)
  IN IF Len(f) >= 8
     THEN [cu2 EXCEPT !.Path = trimQuotes(f[1]), !.Perm = atoiValue(f[3]),
                      !.Owner = atoiValue(f[5]), !.Group = atoiValue(f[7])]
     ELSE cu2

serializeControlUnix(cu) ==
  "unix \"" \o cu.Path \o "\" perm " \o Itoa(cu.Perm) \o " owner " \o Itoa(cu.Owner)
  \o " group " \o Itoa(cu.Group)
  \o (IF Len(cu.Keys) > 0
      THEN " keys { " \o Join(quoteEach(cu.Keys), "; ") \o "; }" ELSE "")
  \o (IF cu.ReadOnly # <<>> THEN " read-only " \o boolWord(cu.ReadOnly[1]) ELSE "")

(***************************************************************************)
(* rrset-order rules.                                                       *)
(***************************************************************************)

RRsetOrder0 == [Name |-> "", Type |-> "", Order |-> ""]

RECURSIVE rrsetFields(_, _, _)
rrsetFields(f, i, ro) ==
  IF i >= Len(f) THEN ro
  ELSE IF f[i + 1] = "type" /\ i + 1 < Len(f)
    THEN rrsetFields(f, i + 2, [ro EXCEPT !.Type = f[i + 2]])
  ELSE IF f[i + 1] = "name" /\ i + 1 < Len(f)
    THEN rrsetFields(f, i + 2, [ro EXCEPT !.Name = trimQuotes(f[i + 2])])
  ELSE IF f[i + 1] = "order" /\ i + 1 < Len(f)
    THEN rrsetFields(f, i + 2, [ro EXCEPT !.Order = f[i + 2]])
  ELSE rrsetFields(f, i + 1, ro)

RECURSIVE rrsetParts(_)
rrsetParts(parts) ==
  IF Len(parts) = 0 THEN <<>>
  ELSE LET p  == TrimSpace(parts[1])
           f  == Fields(p)
           ro == rrsetFields(f, 0, RRsetOrder0)
       IN (IF p = "" THEN <<>>
           ELSE <<IF ro.Order = "" /\ Len(f) > 0
                  THEN [ro EXCEPT !.Order = f[Len(f)]] ELSE ro>>)
          \o rrsetParts(Tail(parts))

parseRRsetOrder(st) ==
  IF Len(st.Body) = 0 THEN <<>>
  ELSE IF ~IsStmt(st.Body[1])
    THEN rrsetParts(Split(TrimSpace(st.Body[1].Text), ";"))
  ELSE <<>>

rrsetOrderText(ro) ==
  Join((IF ro.Type # "" THEN <<"type " \o ro.Type>> ELSE <<>>)
       \o (IF ro.Name # "" THEN <<"name \"" \o ro.Name \o "\"">> ELSE <<>>)
       \o <<"order " \o ro.Order>>, " ")

serializeRRsetOrder(list) ==
  Join([i \in 1..Len(list) |-> rrsetOrderText(list[i])], "; ") \o ";"

(***************************************************************************)
(* load.go: the per-keyword parsers.  Each loop over s.Body is a recursive *)
(* operator over the body index i (1-based) carrying the record built so   *)
(* far; the unexported stmt back-pointers, which nothing reads, are left   *)
(* out.                                                                    *)
(***************************************************************************)

parseInclude(s) == [Path |-> trimQuotes(headText(s))]

parseACL(s) ==
  [Name |-> headNameAfter(s.HeadRaw), Elements |-> parseMatchListFromBody(s)]

RECURSIVE keyBody(_, _, _)
keyBody(body, i, k) ==
  IF i > Len(body) THEN k
  ELSE LET st == body[i]
           v  == trimQuotes(headText(st))
       IN IF IsStmt(st) /\ st.Keyword = "algorithm"
            THEN keyBody(body, i + 1, [k EXCEPT !.Algorithm = v])
          ELSE IF IsStmt(st) /\ st.Keyword = "secret"
            THEN keyBody(body, i + 1, [k EXCEPT !.Secret = v])
          ELSE keyBody(body, i + 1, k)

parseKey(s) ==
  keyBody(s.Body, 1,
          [Name |-> headNameAfter(s.HeadRaw), Algorithm |-> "", Secret |-> ""])

RECURSIVE keyStoreBody(_, _, _)
keyStoreBody(body, i, ks) ==
  IF i > Len(body) THEN ks
  ELSE IF IsStmt(body[i]) /\ body[i].Keyword = "pkcs11-uri"
    THEN keyStoreBody(body, i + 1,
           [ks EXCEPT !.PKCS11URI = trimQuotes(headText(body[i]))])
  ELSE keyStoreBody(body, i + 1, ks)

parseKeyStore(s) ==
  keyStoreBody(s.Body, 1, [Name |-> headNameAfter(s.HeadRaw), PKCS11URI |-> ""])

RECURSIVE remoteServersBody(_, _)
remoteServersBody(body, i) ==
  IF i > Len(body) THEN <<>>
  ELSE (IF IsStmt(body[i]) /\ headText(body[i]) # ""
        THEN <<parseRemoteServerItem(headText(body[i]))>> ELSE <<>>)
       \o remoteServersBody(body, i + 1)

parseRemoteServers(s) ==
  [Name |-> headNameAfter(s.HeadRaw), Servers |-> remoteServersBody(s.Body, 1)]

TLS0 ==
  [Name |-> "", CAFile |-> "", CertFile |-> "", KeyFile |-> "",
   CipherSuites |-> "", Ciphers |-> "", DHParamFile |-> "",
   PreferServer |-> <<>>, Protocols |-> <<>>, RemoteHost |-> "",
   SessionTickets |-> <<>>]

RECURSIVE tlsBody(_, _, _)
tlsBody(body, i, t) ==
  IF i > Len(body) THEN t
  ELSE IF ~IsStmt(body[i]) THEN tlsBody(body, i + 1, t)
  ELSE
    LET kw == body[i].Keyword
        v  == headText(body[i])
        vq == trimQuotes(v)
    IN tlsBody(body, i + 1,
         IF kw = "ca-file" THEN [t EXCEPT !.CAFile = vq]
         ELSE IF kw = "cert-file" THEN [t EXCEPT !.CertFile = vq]
         ELSE IF kw = "key-file" THEN [t EXCEPT !.KeyFile = vq]
         ELSE IF kw = "cipher-suites" THEN [t EXCEPT !.CipherSuites = vq]
         ELSE IF kw = "ciphers" THEN [t EXCEPT !.Ciphers = vq]
         ELSE IF kw = "dhparam-file" THEN [t EXCEPT !.DHParamFile = vq]
         ELSE IF kw = "prefer-server-ciphers"
           THEN [t EXCEPT !.PreferServer = parseBoolPtr(v)]
         ELSE IF kw = "protocols" THEN [t EXCEPT !.Protocols = parseStringList(v)]
         ELSE IF kw = "remote-hostname" THEN [t EXCEPT !.RemoteHost = vq]
         ELSE IF kw = "session-tickets"
           THEN [t EXCEPT !.SessionTickets = parseBoolPtr(v)]
         ELSE t)

parseTLS(s) == tlsBody(s.Body, 1, [TLS0 EXCEPT !.Name = headNameAfter(s.HeadRaw)])

HTTP0 ==
  [Name |-> "", Endpoints |-> <<>>, ListenerClients |-> <<>>,
   StreamsPerConnection |-> <<>>]

RECURSIVE httpBody(_, _, _)
httpBody(body, i, h) ==
  IF i > Len(body) THEN h
  ELSE IF ~IsStmt(body[i]) THEN httpBody(body, i + 1, h)
  ELSE
    LET kw == body[i].Keyword
        v  == headText(body[i])
    IN httpBody(body, i + 1,
         IF kw = "endpoints" THEN [h EXCEPT !.Endpoints = parseStringList(v)]
         ELSE IF kw = "listener-clients"
           THEN [h EXCEPT !.ListenerClients = parseIntPtr(v)]
         ELSE IF kw = "streams-per-connection"
           THEN [h EXCEPT !.StreamsPerConnection = parseIntPtr(v)]
         ELSE h)

parseHTTP(s) == httpBody(s.Body, 1, [HTTP0 EXCEPT !.Name = headNameAfter(s.HeadRaw)])

Controls0 == [Inet |-> <<>>, Unix |-> <<>>]

RECURSIVE controlsBody(_, _, _)
controlsBody(body, i, c) ==
  IF i > Len(body) THEN c
  ELSE IF ~IsStmt(body[i]) THEN controlsBody(body, i + 1, c)
  ELSE
    LET raw == headText(body[i])
    IN controlsBody(body, i + 1,
         IF HasPrefix(raw, "inet ")
           THEN [c EXCEPT !.Inet = Append(@, parseControlInet(raw))]
         ELSE IF HasPrefix(raw, "unix ")
           THEN [c EXCEPT !.Unix = Append(@, parseControlUnix(raw))]
         ELSE c)

parseControls(s) == controlsBody(s.Body, 1, Controls0)

(***************************************************************************)
(* logging: channels and categories.                                        *)
(***************************************************************************)

LogFileDest0 ==
  [Path |-> "", Versions |-> <<>>, Size |-> "", Suffix |-> "", Severity |-> ""]

LogChannel0 ==
  [Name |-> "", File |-> <<>>, Syslog |-> <<>>, Stderr |-> FALSE, Null |-> FALSE,
   Severity |-> "", PrintTime |-> <<>>, PrintCategory |-> <<>>,
   PrintSeverity |-> <<>>, Buffered |-> <<>>]

RECURSIVE logFileArgs(_, _, _)
logFileArgs(args, i, lf) ==
  IF i >= Len(args) THEN lf
  ELSE IF args[i + 1] = "versions" /\ i + 1 < Len(args)
    THEN logFileArgs(args, i + 2,
           IF Atoi(args[i + 2]).err = "nil"
           THEN [lf EXCEPT !.Versions = <<Atoi(args[i + 2]).n>>] ELSE lf)
  ELSE IF args[i + 1] = "size" /\ i + 1 < Len(args)
    THEN logFileArgs(args, i + 2, [lf EXCEPT !.Size = args[i + 2]])
  ELSE IF args[i + 1] = "suffix" /\ i + 1 < Len(args)
    THEN logFileArgs(args, i + 2, [lf EXCEPT !.Suffix = args[i + 2]])
  ELSE IF args[i + 1] = "severity" /\ i + 1 < Len(args)
    THEN logFileArgs(args, i + 2, [lf EXCEPT !.Severity = args[i + 2]])
  ELSE logFileArgs(args, i + 1, lf)

\* load.go:573-574 reads args[0] with no length check: a "file" statement
\* whose header has no field makes the Go runtime panic (index out of range).
logFilePanics(ss) ==
  IsStmt(ss) /\ ss.Keyword = "file" /\ Len(Fields(headText(ss))) = 0

RECURSIVE logChannelBody(_, _, _)
logChannelBody(body, i, lc) ==
  IF i > Len(body) THEN lc
  ELSE IF ~IsStmt(body[i]) THEN logChannelBody(body, i + 1, lc)
  ELSE
    LET kw   == body[i].Keyword
        raw  == headText(body[i])
        args == Fields(raw)
    IN logChannelBody(body, i + 1,
         IF kw = "file"
           THEN [lc EXCEPT !.File =
                   <<logFileArgs(args, 1,
                       [LogFileDest0 EXCEPT !.Path = trimQuotes(args[1])])>>]
         ELSE IF kw = "syslog"
           THEN [lc EXCEPT !.Syslog =
                   <<[Facility |-> IF Len(args) > 0 THEN args[1] ELSE ""]>>]
         ELSE IF kw = "stderr" THEN [lc EXCEPT !.Stderr = TRUE]
         ELSE IF kw = "null" THEN [lc EXCEPT !.Null = TRUE]
         ELSE IF kw = "severity" THEN [lc EXCEPT !.Severity = raw]
         ELSE IF kw = "print-time" THEN [lc EXCEPT !.PrintTime = parseBoolPtr(raw)]
         ELSE IF kw = "print-category"
           THEN [lc EXCEPT !.PrintCategory = parseBoolPtr(raw)]
         ELSE IF kw = "print-severity"
           THEN [lc EXCEPT !.PrintSeverity = parseBoolPtr(raw)]
         ELSE IF kw = "buffered" THEN [lc EXCEPT !.Buffered = parseBoolPtr(raw)]
         ELSE lc)

parseLogChannel(st) ==
  logChannelBody(st.Body, 1, [LogChannel0 EXCEPT !.Name = headNameAfter(st.HeadRaw)])

parseLogCategory(st) ==
  [Name |-> headNameAfter(st.HeadRaw),
   Channels |-> IF Len(st.Body) > 0 /\ ~IsStmt(st.Body[1])
                THEN parseStringList(st.Body[1].Text) ELSE <<>>]

Logging0 == [Channels |-> <<>>, Categories |-> <<>>]

RECURSIVE loggingBody(_, _, _)
loggingBody(body, i, lg) ==
  IF i > Len(body) THEN lg
  ELSE IF ~IsStmt(body[i]) THEN loggingBody(body, i + 1, lg)
  ELSE loggingBody(body, i + 1,
         IF body[i].Keyword = "channel"
           THEN [lg EXCEPT !.Channels = Append(@, parseLogChannel(body[i]))]
         ELSE IF body[i].Keyword = "category"
           THEN [lg EXCEPT !.Categories = Append(@, parseLogCategory(body[i]))]
         ELSE lg)

parseLogging(s) == loggingBody(s.Body, 1, Logging0)

(***************************************************************************)
(* options, trust-anchors, zone, view.                                      *)
(***************************************************************************)

Options0 ==
  [Directory |-> "", Recursion |-> <<>>, AllowQuery |-> <<>>,
   AllowTransfer |-> <<>>, AllowUpdate |-> <<>>, ListenOn |-> <<>>,
   ListenOnV6 |-> <<>>, Forwarders |-> <<>>, Forward |-> "",
   DNSSECValidation |-> "", RRsetOrder |-> <<>>, Other |-> <<>>]

\* the keywords of the switch in parseOptions.
OptionKeywords ==
  {"directory", "recursion", "allow-query", "allow-transfer", "allow-update",
   "listen-on", "listen-on-v6", "forwarders", "forward", "dnssec-validation",
   "rrset-order"}

RECURSIVE optionsBody(_, _, _)
optionsBody(body, i, op) ==
  IF i > Len(body) THEN op
  ELSE IF ~IsStmt(body[i]) THEN optionsBody(body, i + 1, op)
  ELSE
    LET kw  == body[i].Keyword
        raw == headText(body[i])
        f   == Fields(raw)
    IN optionsBody(body, i + 1,
         IF kw = "directory" THEN [op EXCEPT !.Directory = trimQuotes(raw)]
         ELSE IF kw = "recursion" THEN [op EXCEPT !.Recursion = parseBoolPtr(raw)]
         ELSE IF kw = "allow-query"
           THEN [op EXCEPT !.AllowQuery = parseMatchList(raw)]
         ELSE IF kw = "allow-transfer"
           THEN [op EXCEPT !.AllowTransfer = parseMatchList(raw)]
         ELSE IF kw = "allow-update"
           THEN [op EXCEPT !.AllowUpdate = parseMatchList(raw)]
         ELSE IF kw = "listen-on" THEN [op EXCEPT !.ListenOn = <<parseListen(raw)>>]
         ELSE IF kw = "listen-on-v6"
           THEN [op EXCEPT !.ListenOnV6 = <<parseListen(raw)>>]
         ELSE IF kw = "forwarders"
           THEN [op EXCEPT !.Forwarders = parseForwarders(raw)]
         ELSE IF kw = "forward"
           THEN (IF Len(f) > 0 THEN [op EXCEPT !.Forward = f[1]] ELSE op)
         ELSE IF kw = "dnssec-validation"
           THEN (IF Len(f) > 0 THEN [op EXCEPT !.DNSSECValidation = f[1]] ELSE op)
         ELSE IF kw = "rrset-order"
           THEN [op EXCEPT !.RRsetOrder = parseRRsetOrder(body[i])]
         ELSE [op EXCEPT !.Other = Append(@, [Name |-> kw, Raw |-> raw])])

parseOptions(s) == optionsBody(s.Body, 1, Options0)

RECURSIVE trustAnchorsBody(_, _)
trustAnchorsBody(body, i) ==
  IF i > Len(body) THEN <<>>
  ELSE IF ~IsStmt(body[i]) THEN trustAnchorsBody(body, i + 1)
  ELSE
    LET raw    == headText(body[i])
        fields == Fields(raw)
        name   == trimQuotes(fields[1])
        rest   == TrimSpace(TrimPrefix(raw, fields[1] \o " "))
    IN (IF Len(fields) = 0 THEN <<>>
        ELSE IF Contains(rest, "ds")
          THEN <<[Name |-> name, DS |-> rest, DNSKey |-> ""]>>
        ELSE IF Contains(rest, "key")
          THEN <<[Name |-> name, DS |-> "", DNSKey |-> rest]>>
        ELSE <<>>)
       \o trustAnchorsBody(body, i + 1)

parseTrustAnchors(st) == [Items |-> trustAnchorsBody(st.Body, 1)]

Zone0 ==
  [Name |-> "", Class |-> "", Type |-> "", File |-> "", PrimariesRef |-> "",
   Primaries |-> <<>>, Forwarders |-> <<>>, Forward |-> "", AllowUpdate |-> <<>>,
   AllowTransfer |-> <<>>, AlsoNotify |-> <<>>, DNSSECPolicy |-> ""]

RECURSIVE zoneBody(_, _, _)
zoneBody(body, i, z) ==
  IF i > Len(body) THEN z
  ELSE IF ~IsStmt(body[i]) THEN zoneBody(body, i + 1, z)
  ELSE
    LET kw  == body[i].Keyword
        raw == headText(body[i])
        f   == Fields(raw)
    IN zoneBody(body, i + 1,
         IF kw = "type" THEN (IF Len(f) > 0 THEN [z EXCEPT !.Type = f[1]] ELSE z)
         ELSE IF kw = "file" THEN [z EXCEPT !.File = trimQuotes(raw)]
         ELSE IF kw = "primaries"
           THEN (IF HasPrefix(raw, "{")
                 THEN [z EXCEPT !.Primaries = parseRemoteServerListBody(raw)]
                 ELSE [z EXCEPT !.PrimariesRef = TrimSpace(raw)])
         ELSE IF kw = "forwarders" THEN [z EXCEPT !.Forwarders = parseForwarders(raw)]
         ELSE IF kw = "forward"
           THEN (IF Len(f) > 0 THEN [z EXCEPT !.Forward = f[1]] ELSE z)
         ELSE IF kw = "allow-update"
           THEN [z EXCEPT !.AllowUpdate = parseMatchList(raw)]
         ELSE IF kw = "allow-transfer"
           THEN [z EXCEPT !.AllowTransfer = parseMatchList(raw)]
         ELSE IF kw = "also-notify"
           THEN [z EXCEPT !.AlsoNotify = parseRemoteServerListBody(raw)]
         ELSE IF kw = "dnssec-policy" THEN [z EXCEPT !.DNSSECPolicy = trimQuotes(raw)]
         ELSE z)

parseZone(s) ==
  zoneBody(s.Body, 1,
           [Zone0 EXCEPT !.Name = headNameAfter(s.HeadRaw),
                         !.Class = headClassAfter(s.HeadRaw)])

View0 ==
  [Name |-> "", Class |-> "", MatchClients |-> <<>>, MatchDestinations |-> <<>>,
   Recursion |-> <<>>, TrustAnchors |-> <<>>, Zones |-> <<>>, Includes |-> <<>>]

RECURSIVE viewBody(_, _, _)
viewBody(body, i, v) ==
  IF i > Len(body) THEN v
  ELSE IF ~IsStmt(body[i]) THEN viewBody(body, i + 1, v)
  ELSE
    LET kw  == body[i].Keyword
        raw == headText(body[i])
    IN viewBody(body, i + 1,
         IF kw = "match-clients" THEN [v EXCEPT !.MatchClients = parseMatchList(raw)]
         ELSE IF kw = "match-destinations"
           THEN [v EXCEPT !.MatchDestinations = parseMatchList(raw)]
         ELSE IF kw = "recursion" THEN [v EXCEPT !.Recursion = parseBoolPtr(raw)]
         ELSE IF kw = "trust-anchors"
           THEN [v EXCEPT !.TrustAnchors = <<parseTrustAnchors(body[i])>>]
         ELSE IF kw = "zone" THEN [v EXCEPT !.Zones = Append(@, parseZone(body[i]))]
         ELSE IF kw = "include"
           THEN [v EXCEPT !.Includes = Append(@, [Path |-> trimQuotes(raw)])]
         ELSE v)

parseView(s) ==
  viewBody(s.Body, 1,
           [View0 EXCEPT !.Name = headNameAfter(s.HeadRaw),
                         !.Class = headClassAfter(s.HeadRaw)])

(***************************************************************************)
(* FromFile: one pass over the top-level nodes.                             *)
(***************************************************************************)

Config0 ==
  [Includes |-> <<>>, ACLs |-> <<>>, Keys |-> <<>>, KeyStores |-> <<>>,
   RemoteServers |-> <<>>, TLS |-> <<>>, HTTP |-> <<>>, Controls |-> <<>>,
   Logging |-> <<>>, Options |-> <<>>, TrustAnchors |-> <<>>, Views |-> <<>>,
   Zones |-> <<>>]

\* the 13 keywords of the switch in FromFile, in Apply's order.
ModeledKeywords ==
  <<"include", "acl", "key", "key-store", "remote-servers", "tls", "http",
    "controls", "logging", "options", "trust-anchors", "view", "zone">>

RECURSIVE fromFileNodes(_, _, _)
fromFileNodes(nodes, i, cfg) ==
  IF i > Len(nodes) THEN cfg
  ELSE IF ~IsStmt(nodes[i]) THEN fromFileNodes(nodes, i + 1, cfg)
  ELSE
    LET s  == nodes[i]
        kw == s.Keyword
    IN fromFileNodes(nodes, i + 1,
         IF kw = "include" THEN [cfg EXCEPT !.Includes = Append(@, parseInclude(s))]
         ELSE IF kw = "acl" THEN [cfg EXCEPT !.ACLs = Append(@, parseACL(s))]
         ELSE IF kw = "key" THEN [cfg EXCEPT !.Keys = Append(@, parseKey(s))]
         ELSE IF kw = "key-store"
           THEN [cfg EXCEPT !.KeyStores = Append(@, parseKeyStore(s))]
         ELSE IF kw = "remote-servers"
           THEN [cfg EXCEPT !.RemoteServers = Append(@, parseRemoteServers(s))]
         ELSE IF kw = "tls" THEN [cfg EXCEPT !.TLS = Append(@, parseTLS(s))]
         ELSE IF kw = "http" THEN [cfg EXCEPT !.HTTP = Append(@, parseHTTP(s))]
         ELSE IF kw = "controls" THEN [cfg EXCEPT !.Controls = <<parseControls(s)>>]
         ELSE IF kw = "logging" THEN [cfg EXCEPT !.Logging = <<parseLogging(s)>>]
         ELSE IF kw = "options" THEN [cfg EXCEPT !.Options = <<parseOptions(s)>>]
         ELSE IF kw = "trust-anchors"
           THEN [cfg EXCEPT !.TrustAnchors = Append(@, parseTrustAnchors(s))]
         ELSE IF kw = "view" THEN [cfg EXCEPT !.Views = Append(@, parseView(s))]
         ELSE IF kw = "zone" THEN [cfg EXCEPT !.Zones = Append(@, parseZone(s))]
         ELSE cfg)

\* a faulty decode: Options is allocated whether or not the file has one.
FromFileAllocatesOptions(nodes) ==
  LET c == fromFileNodes(nodes, 1, Config0)
  IN IF c.Options = <<>> THEN [c EXCEPT !.Options = <<Options0>>] ELSE c

\* the Config FromFile returns (its ast field is the state variable ast).
FromFile(nodes) == fromFileNodes(nodes, 1, Config0)

\* FromFile does not return: a logging channel holds a "file" statement
\* without a field and parseLogChannel indexes args[0].
FromFilePanics(nodes) ==
  \E i \in 1..Len(nodes) :
    /\ IsStmt(nodes[i]) /\ nodes[i].Keyword = "logging"
    /\ \E j \in 1..Len(nodes[i].Body) :
         LET ch == nodes[i].Body[j]
         IN /\ IsStmt(ch) /\ ch.Keyword = "channel"
            /\ \E k \in 1..Len(ch.Body) : logFilePanics(ch.Body[k])

(***************************************************************************)
(* The statement constructors of the namedconf package.  The package is    *)
(* not part of this repository; they are modelled from the specification's *)
(* description of the CST adapter ("build a Statement from a header string *)
(* and a body node list", "build a single-line Statement from one line of  *)
(* text"): the statement keeps the given text as its header and takes its  *)
(* first word as keyword.                                                  *)
(***************************************************************************)

firstWord(text) == IF Len(Fields(text)) = 0 THEN "" ELSE Fields(text)[1]

NewSimpleStmt(line) == Stmt(firstWord(line), line, <<>>)

NewBlockStmt(head, body) == Stmt(firstWord(head), head, body)

(***************************************************************************)
(* load.go: the builders.                                                   *)
(***************************************************************************)

buildACL(a) ==
  NewBlockStmt("acl \"" \o a.Name \o "\"", <<Raw(serializeMatchList(a.Elements))>>)

buildKey(k) ==
  NewBlockStmt("key \"" \o k.Name \o "\"",
    <<NewSimpleStmt("algorithm \"" \o k.Algorithm \o "\""),
      NewSimpleStmt("secret \"" \o k.Secret \o "\"")>>)

buildKeyStore(ks) ==
  NewBlockStmt("key-store \"" \o ks.Name \o "\"",
    IF ks.PKCS11URI # ""
    THEN <<NewSimpleStmt("pkcs11-uri \"" \o ks.PKCS11URI \o "\"")>> ELSE <<>>)

buildRemoteServers(rs) ==
  NewBlockStmt("remote-servers \"" \o rs.Name \o "\"",
    [i \in 1..Len(rs.Servers) |->
       NewSimpleStmt(serializeRemoteServerItem(rs.Servers[i]))])

\* the add closure of buildTLS, buildOptions, ...: one statement, or none.
quotedIfSet(k, v) ==
  IF v # "" THEN <<NewSimpleStmt(k \o " \"" \o v \o "\"")>> ELSE <<>>

buildTLS(t) ==
  NewBlockStmt("tls \"" \o t.Name \o "\"",
    quotedIfSet("ca-file", t.CAFile)
    \o quotedIfSet("cert-file", t.CertFile)
    \o quotedIfSet("key-file", t.KeyFile)
    \o quotedIfSet("cipher-suites", t.CipherSuites)
    \o quotedIfSet("ciphers", t.Ciphers)
    \o quotedIfSet("dhparam-file", t.DHParamFile)
    \o (IF t.PreferServer # <<>>
        THEN <<NewSimpleStmt("prefer-server-ciphers " \o boolWord(t.PreferServer[1]))>>
        ELSE <<>>)
    \o (IF Len(t.Protocols) > 0
        THEN <<NewSimpleStmt("protocols { " \o Join(quoteEach(t.Protocols), "; ")
                             \o "; }")>>
        ELSE <<>>)
    \o quotedIfSet("remote-hostname", t.RemoteHost)
    \o (IF t.SessionTickets # <<>>
        THEN <<NewSimpleStmt("session-tickets " \o boolWord(t.SessionTickets[1]))>>
        ELSE <<>>))

buildHTTP(h) ==
  NewBlockStmt("http \"" \o h.Name \o "\"",
    (IF Len(h.Endpoints) > 0
     THEN <<NewSimpleStmt("endpoints { " \o Join(quoteEach(h.Endpoints), "; ")
                          \o "; }")>>
     ELSE <<>>)
    \o (IF h.ListenerClients # <<>>
        THEN <<NewSimpleStmt("listener-clients " \o Itoa(h.ListenerClients[1]))>>
        ELSE <<>>)
    \o (IF h.StreamsPerConnection # <<>>
        THEN <<NewSimpleStmt("streams-per-connection "
                             \o Itoa(h.StreamsPerConnection[1]))>>
        ELSE <<>>))

buildControls(c) ==
  NewBlockStmt("controls",
    [i \in 1..Len(c.Inet) |-> NewSimpleStmt(serializeControlInet(c.Inet[i]))]
    \o [i \in 1..Len(c.Unix) |-> NewSimpleStmt(serializeControlUnix(c.Unix[i]))])

buildLogChannel(ch) ==
  NewBlockStmt("channel \"" \o ch.Name \o "\"",
    (IF ch.File # <<>>
     THEN LET lf == ch.File[1]
              parts ==
                <<"\"" \o lf.Path \o "\"">>
                \o (IF lf.Versions # <<>>
                    THEN <<"versions " \o Itoa(lf.Versions[1])>> ELSE <<>>)
                \o (IF lf.Size # "" THEN <<"size " \o lf.Size>> ELSE <<>>)
                \o (IF lf.Suffix # "" THEN <<"suffix " \o lf.Suffix>> ELSE <<>>)
                \o (IF lf.Severity # "" THEN <<"severity " \o lf.Severity>> ELSE <<>>)
          IN <<NewSimpleStmt("file " \o Join(parts, " "))>>
     ELSE <<>>)
    \o (IF ch.Syslog # <<>>
        THEN (IF ch.Syslog[1].Facility # ""
              THEN <<NewSimpleStmt("syslog " \o ch.Syslog[1].Facility)>>
              ELSE <<NewSimpleStmt("syslog")>>)
        ELSE <<>>)
    \o (IF ch.Stderr THEN <<NewSimpleStmt("stderr")>> ELSE <<>>)
    \o (IF ch.Null THEN <<NewSimpleStmt("null")>> ELSE <<>>)
    \o (IF ch.Severity # "" THEN <<NewSimpleStmt("severity " \o ch.Severity)>>
        ELSE <<>>)
    \o (IF ch.PrintTime # <<>>
        THEN <<NewSimpleStmt("print-time " \o boolWord(ch.PrintTime[1]))>> ELSE <<>>)
    \o (IF ch.PrintCategory # <<>>
        THEN <<NewSimpleStmt("print-category " \o boolWord(ch.PrintCategory[1]))>>
        ELSE <<>>)
    \o (IF ch.PrintSeverity # <<>>
        THEN <<NewSimpleStmt("print-severity " \o boolWord(ch.PrintSeverity[1]))>>
        ELSE <<>>)
    \o (IF ch.Buffered # <<>>
        THEN <<NewSimpleStmt("buffered " \o boolWord(ch.Buffered[1]))>> ELSE <<>>))

buildLogCategory(cat) ==
  NewSimpleStmt("category \"" \o cat.Name \o "\" { "
                \o Join(quoteEach(cat.Channels), "; ") \o "; }")

buildLogging(l) ==
  NewBlockStmt("logging",
    [i \in 1..Len(l.Channels) |-> buildLogChannel(l.Channels[i])]
    \o [i \in 1..Len(l.Categories) |-> buildLogCategory(l.Categories[i])])

\* one statement when the condition holds, none otherwise.
stmtIf(cond, line) == IF cond THEN <<NewSimpleStmt(line)>> ELSE <<>>

\* the statements buildOptions emits for Options.Other (load.go:680-682).
otherStmts(other) ==
  [i \in 1..Len(other) |-> NewSimpleStmt(other[i].Name \o " " \o other[i].Raw)]

\* the statements buildOptions emits for the modeled options (load.go:647-679).
modeledOptionStmts(o) ==
  stmtIf(o.Directory # "", "directory \"" \o o.Directory \o "\"")
  \o (IF o.Recursion # <<>>
      THEN <<NewSimpleStmt("recursion " \o boolWord(o.Recursion[1]))>> ELSE <<>>)
  \o (IF Len(o.AllowQuery) > 0
      THEN <<NewSimpleStmt("allow-query " \o serializeMatchList(o.AllowQuery))>>
      ELSE <<>>)
  \o (IF Len(o.AllowTransfer) > 0
      THEN <<NewSimpleStmt("allow-transfer " \o serializeMatchList(o.AllowTransfer))>>
      ELSE <<>>)
  \o (IF Len(o.AllowUpdate) > 0
      THEN <<NewSimpleStmt("allow-update " \o serializeMatchList(o.AllowUpdate))>>
      ELSE <<>>)
  \o (IF o.ListenOn # <<>>
      THEN <<NewSimpleStmt("listen-on " \o serializeListen(o.ListenOn[1]))>>
      ELSE <<>>)
  \o (IF o.ListenOnV6 # <<>>
      THEN <<NewSimpleStmt("listen-on-v6 " \o serializeListen(o.ListenOnV6[1]))>>
      ELSE <<>>)
  \o (IF Len(o.Forwarders) > 0
      THEN <<NewSimpleStmt("forwarders " \o serializeForwarders(o.Forwarders))>>
      ELSE <<>>)
  \o stmtIf(o.Forward # "", "forward " \o o.Forward)
  \o stmtIf(o.DNSSECValidation # "", "dnssec-validation " \o o.DNSSECValidation)
  \o (IF Len(o.RRsetOrder) > 0
      THEN <<NewSimpleStmt("rrset-order { " \o serializeRRsetOrder(o.RRsetOrder)
                           \o " }")>>
      ELSE <<>>)

buildOptions(o) ==
  NewBlockStmt("options", modeledOptionStmts(o) \o otherStmts(o.Other))

RECURSIVE trustAnchorStmts(_, _)
trustAnchorStmts(items, i) ==
  IF i > Len(items) THEN <<>>
  ELSE (IF items[i].DS # ""
          THEN <<NewSimpleStmt("\"" \o items[i].Name \o "\" " \o items[i].DS)>>
        ELSE IF items[i].DNSKey # ""
          THEN <<NewSimpleStmt("\"" \o items[i].Name \o "\" " \o items[i].DNSKey)>>
        ELSE <<>>)
       \o trustAnchorStmts(items, i + 1)

buildTrustAnchors(t) == NewBlockStmt("trust-anchors", trustAnchorStmts(t.Items, 1))

buildZone(z) ==
  NewBlockStmt(
    "zone \"" \o z.Name \o "\"" \o (IF z.Class # "" THEN " " \o z.Class ELSE ""),
    stmtIf(z.Type # "", "type " \o z.Type)
    \o stmtIf(z.File # "", "file \"" \o z.File \o "\"")
    \o stmtIf(z.PrimariesRef # "", "primaries " \o z.PrimariesRef)
    \o (IF Len(z.Primaries) > 0
        THEN <<NewSimpleStmt("primaries " \o serializeRemoteServerList(z.Primaries))>>
        ELSE <<>>)
    \o (IF Len(z.Forwarders) > 0
        THEN <<NewSimpleStmt("forwarders " \o serializeForwarders(z.Forwarders))>>
        ELSE <<>>)
    \o stmtIf(z.Forward # "", "forward " \o z.Forward)
    \o (IF Len(z.AllowUpdate) > 0
        THEN <<NewSimpleStmt("allow-update " \o serializeMatchList(z.AllowUpdate))>>
        ELSE <<>>)
    \o (IF Len(z.AllowTransfer) > 0
        THEN <<NewSimpleStmt("allow-transfer " \o serializeMatchList(z.AllowTransfer))>>
        ELSE <<>>)
    \o (IF Len(z.AlsoNotify) > 0
        THEN <<NewSimpleStmt("also-notify " \o serializeRemoteServerList(z.AlsoNotify))>>
        ELSE <<>>)
    \o stmtIf(z.DNSSECPolicy # "", "dnssec-policy \"" \o z.DNSSECPolicy \o "\""))

buildView(v) ==
  NewBlockStmt(
    "view \"" \o v.Name \o "\"" \o (IF v.Class # "" THEN " " \o v.Class ELSE ""),
    (IF Len(v.MatchClients) > 0
     THEN <<NewSimpleStmt("match-clients " \o serializeMatchList(v.MatchClients))>>
     ELSE <<>>)
    \o (IF Len(v.MatchDestinations) > 0
        THEN <<NewSimpleStmt("match-destinations "
                             \o serializeMatchList(v.MatchDestinations))>>
        ELSE <<>>)
    \o (IF v.Recursion # <<>>
        THEN <<NewSimpleStmt("recursion " \o boolWord(v.Recursion[1]))>> ELSE <<>>)
    \o (IF v.TrustAnchors # <<>> THEN <<buildTrustAnchors(v.TrustAnchors[1])>>
        ELSE <<>>)
    \o [i \in 1..Len(v.Zones) |-> buildZone(v.Zones[i])]
    \o [i \in 1..Len(v.Includes) |->
          NewSimpleStmt("include \"" \o v.Includes[i].Path \o "\"")])

(***************************************************************************)
(* load.go: syncBlocks, syncSingleton, syncIncludes and Apply.              *)
(***************************************************************************)

\* the first loop of the three sync functions: every node but the
\* statements of the keyword, in order.
\* a faulty filter: a node that is no statement is dropped with the
\* statements of the keyword.
withoutKeywordDropsRaw(nodes, keyword) ==
  SelectSeq(nodes, LAMBDA n : IsStmt(n) /\ n.Keyword # keyword)

\* a faulty filter: the old statements of the keyword are kept.
withoutKeywordKeepsOld(nodes, keyword) == nodes

withoutKeyword(nodes, keyword) ==
  SelectSeq(nodes, LAMBDA n : ~(IsStmt(n) /\ n.Keyword = keyword))

\* stmts are the statements b(it) of the items, in the items' order.
\* a sync that puts the new statements in front of the kept nodes
syncBlocksPrepends(nodes, keyword, stmts) ==
  stmts \o withoutKeyword(nodes, keyword)

syncBlocks(nodes, keyword, stmts) == withoutKeyword(nodes, keyword) \o stmts

\* a singleton sync that leaves the old statements of the keyword in place
syncSingletonAppends(nodes, keyword, stmts) == nodes \o stmts

\* stmts is <<>> for the nil pointer, else the one statement b(*item).
syncSingleton(nodes, keyword, stmts) ==
  IF stmts = <<>> THEN withoutKeyword(nodes, keyword)
  ELSE syncBlocks(nodes, keyword, stmts)

syncIncludes(nodes, incs) ==
  withoutKeyword(nodes, "include")
  \o [i \in 1..Len(incs) |-> NewSimpleStmt("include \"" \o incs[i].Path \o "\"")]

\* f.Nodes after c.Apply(f), load.go:70-83.
ApplyNodes(c, nodes) ==
  LET n1  == syncIncludes(nodes, c.Includes)
      n2  == syncBlocks(n1, "acl", [i \in 1..Len(c.ACLs) |-> buildACL(c.ACLs[i])])
      n3  == syncBlocks(n2, "key", [i \in 1..Len(c.Keys) |-> buildKey(c.Keys[i])])
      n4  == syncBlocks(n3, "key-store",
               [i \in 1..Len(c.KeyStores) |-> buildKeyStore(c.KeyStores[i])])
      n5  == syncBlocks(n4, "remote-servers",
               [i \in 1..Len(c.RemoteServers) |-> buildRemoteServers(c.RemoteServers[i])])
      n6  == syncBlocks(n5, "tls", [i \in 1..Len(c.TLS) |-> buildTLS(c.TLS[i])])
      n7  == syncBlocks(n6, "http", [i \in 1..Len(c.HTTP) |-> buildHTTP(c.HTTP[i])])
      n8  == syncSingleton(n7, "controls",
               [i \in 1..Len(c.Controls) |-> buildControls(c.Controls[i])])
      n9  == syncSingleton(n8, "logging",
               [i \in 1..Len(c.Logging) |-> buildLogging(c.Logging[i])])
      n10 == syncSingleton(n9, "options",
               [i \in 1..Len(c.Options) |-> buildOptions(c.Options[i])])
      n11 == syncBlocks(n10, "trust-anchors",
               [i \in 1..Len(c.TrustAnchors) |-> buildTrustAnchors(c.TrustAnchors[i])])
      n12 == syncBlocks(n11, "view", [i \in 1..Len(c.Views) |-> buildView(c.Views[i])])
  IN syncBlocks(n12, "zone", [i \in 1..Len(c.Zones) |-> buildZone(c.Zones[i])])

(***************************************************************************)
(* api.go: the accessors the state machine uses.                            *)
(***************************************************************************)

RECURSIVE zoneIndex(_, _, _)
\* the index of the first zone of that name (1-based), 0 when there is none.
zoneIndex(zones, name, i) ==
  IF i > Len(zones) THEN 0
  ELSE IF zones[i].Name = name THEN i
  ELSE zoneIndex(zones, name, i + 1)

\* an insert that never looks for the name
UpsertZoneAppends(zones, z) == Append(zones, z)

\* c.Zones after c.UpsertZone(z).
UpsertZone(zones, z) ==
  LET i == zoneIndex(zones, z.Name, 1)
  IN IF i > 0 THEN [zones EXCEPT ![i] = z] ELSE Append(zones, z)

\* GetZone: the first top-level zone of the name, else the first one in
\* the views, in view order; <<>> is nil.
RECURSIVE viewZone(_, _, _)
viewZone(views, name, i) ==
  IF i > Len(views) THEN <<>>
  ELSE LET j == zoneIndex(views[i].Zones, name, 1)
       IN IF j > 0 THEN <<views[i].Zones[j]>>
          ELSE viewZone(views, name, i + 1)

GetZone(c, name) ==
  LET i == zoneIndex(c.Zones, name, 1)
  IN IF i > 0 THEN <<c.Zones[i]>> ELSE viewZone(c.Views, name, 1)

\* the filter loop of RemoveZone, RemoveView and RemoveZoneInView from the
\* i-th element on: out collects the kept elements, removed is the flag.
RECURSIVE removeNamed(_, _, _, _, _)
removeNamed(xs, name, i, out, removed) ==
  IF i > Len(xs) THEN [out |-> out, removed |-> removed]
  ELSE IF xs[i].Name = name THEN removeNamed(xs, name, i + 1, out, TRUE)
  ELSE removeNamed(xs, name, i + 1, Append(out, xs[i]), removed)

\* a removal that stops at the first zone of the name
RemoveZoneFirstOnly(zones, name) ==
  LET i == zoneIndex(zones, name, 1)
  IN IF i = 0 THEN [out |-> zones, removed |-> FALSE]
     ELSE [out |-> SubSeq(zones, 1, i - 1) \o SubSeq(zones, i + 1, Len(zones)),
           removed |-> TRUE]

\* c.RemoveZone(name): out is c.Zones afterwards, removed the result.
RemoveZone(zones, name) == removeNamed(zones, name, 1, <<>>, FALSE)

\* FindView: the index of the first view of the name; 0 is nil.
FindView(views, name) == zoneIndex(views, name, 1)

\* c.Views after c.UpsertView(v).
UpsertView(views, v) ==
  LET i == FindView(views, v.Name)
  IN IF i > 0 THEN [views EXCEPT ![i] = v] ELSE Append(views, v)

\* c.RemoveView(name): out is c.Views afterwards, removed the result.
RemoveView(views, name) == removeNamed(views, name, 1, <<>>, FALSE)

\* an upsert that puts the zone into every view of the name
UpsertZoneInEveryView(views, viewName, z) ==
  IF FindView(views, viewName) = 0
  THEN Append(views, [View0 EXCEPT !.Name = viewName, !.Zones = <<z>>])
  ELSE [i \in 1..Len(views) |->
          IF views[i].Name = viewName
          THEN [views[i] EXCEPT !.Zones = UpsertZone(@, z)]
          ELSE views[i]]

\* c.Views after c.UpsertZoneInView(viewName, z).
UpsertZoneInView(views, viewName, z) ==
  LET v == FindView(views, viewName)
  IN IF v = 0
     THEN Append(views, [View0 EXCEPT !.Name = viewName, !.Zones = <<z>>])
     ELSE [views EXCEPT ![v].Zones = UpsertZone(@, z)]

\* c.RemoveZoneInView(viewName, zoneName): out is c.Views afterwards,
\* removed the result; the filter runs on the first view of the name.
RemoveZoneInView(views, viewName, zoneName) ==
  LET v == FindView(views, viewName)
  IN IF v = 0 THEN [out |-> views, removed |-> FALSE]
     ELSE LET r == removeNamed(views[v].Zones, zoneName, 1, <<>>, FALSE)
          IN [out |-> [views EXCEPT ![v].Zones = r.out], removed |-> r.removed]

\* c.Views after c.SetTrustAnchorsInView(viewName, ta).
SetTrustAnchorsInView(views, viewName, ta) ==
  LET v == FindView(views, viewName)
  IN IF v = 0
     THEN Append(views, [View0 EXCEPT !.Name = viewName, !.TrustAnchors = <<ta>>])
     ELSE [views EXCEPT ![v].TrustAnchors = <<ta>>]

(***************************************************************************)
(* A *Zone obtained from GetZone is the address of a slot of a slice's     *)
(* backing array.  A reference r into c.Zones records the name asked for,  *)
(* the slot, the array with every slot up to its capacity (the slots past  *)
(* len(c.Zones) keep what was last stored there), and live: c.Zones still  *)
(* uses this array.  A reference into a view's zones records the view and  *)
(* the slot.  others tells that every later call was on another name.      *)
(***************************************************************************)
\* the caller holds no *Zone.
NoRef == [held |-> FALSE]

\* p := c.GetZone(name), with spare the slots of c.Zones' array past its
\* length; NoRef for nil.
refOfGetZone(c, name, spare) ==
  LET i == zoneIndex(c.Zones, name, 1)
      v == CHOOSE k \in 0..Len(c.Views) :
             /\ k > 0 => zoneIndex(c.Views[k].Zones, name, 1) > 0
             /\ \A j \in 1..Len(c.Views) :
                  zoneIndex(c.Views[j].Zones, name, 1) > 0 => (k > 0 /\ k <= j)
  IN IF i > 0
     THEN [held |-> TRUE, name |-> name, where |-> "top", view |-> 0,
           slot |-> i, array |-> c.Zones \o spare, live |-> TRUE,
           others |-> TRUE, wrote |-> FALSE]
     ELSE IF v > 0
     THEN [held |-> TRUE, name |-> name, where |-> "view", view |-> v,
           slot |-> zoneIndex(c.Views[v].Zones, name, 1), array |-> <<>>,
           live |-> TRUE, others |-> TRUE, wrote |-> FALSE]
     ELSE NoRef

\* the reference after c.UpsertZone(z) on zones = c.Zones: an assignment
\* to slot i, an append into spare capacity, or an append that moves
\* c.Zones to a new array and leaves the old one to the reference.
refAfterUpsert(r, zones, z) ==
  IF ~r.held THEN r
  ELSE LET r1 == [r EXCEPT !.others = @ /\ z.Name # r.name]
           i  == zoneIndex(zones, z.Name, 1)
       IN IF r.where # "top" \/ ~r.live THEN r1
          ELSE IF i > 0 THEN [r1 EXCEPT !.array[i] = z]
          ELSE IF Len(zones) < Len(r.array)
            THEN [r1 EXCEPT !.array[Len(zones) + 1] = z]
          ELSE [r1 EXCEPT !.live = FALSE]

\* the reference after c.RemoveZone(name): out := c.Zones[:0] filters
\* inside the same array, the slots past len(out) keep their old content.
refAfterRemove(r, zones, name) ==
  IF ~r.held THEN r
  ELSE LET r1  == [r EXCEPT !.others = @ /\ name # r.name]
           out == RemoveZone(zones, name).out
       IN IF r.where # "top" \/ ~r.live THEN r1
          ELSE [r1 EXCEPT !.array = [k \in 1..Len(r.array) |->
                                      IF k <= Len(out) THEN out[k]
                                      ELSE r.array[k]]]

\* *p, the zone read through the reference.
refZone(r, c) ==
  IF r.where = "top" THEN r.array[r.slot]
  ELSE c.Views[r.view].Zones[r.slot]

\* the Config after p.DNSSECPolicy = policy: the write reaches c.Zones
\* when the slot is a live element of it, and a view's zone always.
cfgAfterWrite(r, c, policy) ==
  IF r.where = "view"
  THEN [c EXCEPT !.Views[r.view].Zones[r.slot].DNSSECPolicy = policy]
  ELSE IF r.live /\ r.slot <= Len(c.Zones)
  THEN [c EXCEPT !.Zones[r.slot].DNSSECPolicy = policy]
  ELSE c

\* c.Options after c.SetRecursion(b); options is the pointer.
SetRecursion(options, b) ==
  LET o == IF options = <<>> THEN Options0 ELSE options[1]
  IN <<[o EXCEPT !.Recursion = <<b>>]>>

\* the tree Apply works on: f, or c.ast when f is nil.  Trees are named
\* "f" and "g"; "nil" is the nil argument, "none" the nil c.ast.
applyTree(target, backing) == IF target = "nil" THEN backing ELSE target

\* an Apply that keeps the back-reference it already has
astKeptAfterApply(target, backing) ==
  IF backing = "none" THEN target ELSE backing

\* c.ast after a successful Apply: c.ast = f, load.go:85.
astAfterApply(target, backing) == applyTree(target, backing)

\* a faulty check: the fall-back to c.ast is forgotten.
ApplyFailsWithoutFallback(argIsNil, astSet) == argIsNil

\* Apply returns the "nil file" error: f == nil after f = c.ast.
ApplyFails(argIsNil, astSet) == argIsNil /\ ~astSet

\* Save returns the "no underlying AST" error.
SaveFails(astSet) == ~astSet

(***************************************************************************)
(* Inputs.  The nodes an initial file is made of: raw fragments,           *)
(* statements the engine does not model, and statements of the modeled     *)
(* keywords, with headers as the constructors above write them (the        *)
(* keyword first), with and without the terminating semicolon.             *)
(***************************************************************************)

MaxNodes == 2

Simple(line) == NewSimpleStmt(line)

\* the nodes initial files are made of, in the order they keep in a file.
MasterFile ==
  << Raw("# managed by hand\n"),
     Stmt("zone", "zone \"example.com\" IN",
          <<Simple("type primary;"), Simple("file \"example.com.zone\";"),
            Simple("notify yes;")>>),
     Stmt("options", "options",
          <<Simple("directory \"/var/named\";"), Simple("recursion yes;"),
            Simple("listen-on port 53 { any; };"),
            Simple("max-cache-size 256m;"), Simple("version \"none\";"),
            Stmt("rate-limit", "rate-limit", <<Simple("responses-per-second 5;")>>)>>),
     Stmt("server", "server 10.0.0.1", <<Simple("bogus yes;")>>),
     Simple("include \"/etc/named.rfc1912.zones\";"),
     Stmt("acl", "acl \"trusted\"", <<Raw("{ 10.0.0.0/8; !bogons; }")>>),
     Stmt("acl", "acl \"nested\"", <<Raw("{ { 10.0.0.0/8; !bogons; }; }")>>),
     Stmt("key", "key \"rndc-key\"",
          <<Simple("algorithm hmac-sha256;"), Simple("secret \"c2VjcmV0\";")>>),
     Stmt("controls", "controls",
          <<Simple("inet 127.0.0.1 port 953 allow { localhost; } keys { \"rndc-key\"; };")>>),
     Stmt("logging", "logging",
          <<Stmt("channel", "channel \"main\"",
                 <<Simple("file \"named.log\" versions 3 size 5m;"),
                   Simple("severity info;")>>),
            Stmt("category", "category \"default\"", <<Raw("{ \"main\"; }")>>)>>),
     Stmt("logging", "logging",
          <<Stmt("channel", "channel \"broken\"", <<Stmt("file", "", <<>>)>>)>>),
     Stmt("options", "options", <<>>),
     Stmt("trust-anchors", "trust-anchors",
          <<Simple("\".\" static-ds 20326 8 2 \"E06D\";")>>),
     Stmt("view", "view \"internal\" IN",
          <<Simple("match-clients { trusted; };"),
            Stmt("zone", "zone \"int.example\"", <<Simple("type primary;")>>)>>),
     Stmt("zone", "zone \"example.org\"", <<Simple("type secondary;")>>),
     Raw("\n") >>

\* the strictly increasing index sequences of length n into 1..m.
RECURSIVE Increasing(_, _)
Increasing(n, m) ==
  IF n = 0 THEN {<<>>}
  ELSE IF m < n THEN {}
  ELSE Increasing(n, m - 1)
       \cup {Append(q, m) : q \in Increasing(n - 1, m - 1)}

\* the node lists an initial file may hold: the nodes of MasterFile picked
\* by at most MaxNodes positions, in file order.
InitFiles ==
  { [i \in 1..Len(q) |-> MasterFile[q[i]]] :
      q \in UNION { Increasing(n, Len(MasterFile)) : n \in 0..MaxNodes } }

(***************************************************************************)
(* In-memory models a caller constructs without a backing tree.            *)
(***************************************************************************)

aclRef(name) == [MatchTerm0 EXCEPT !.ACLRef = name]
address(a) == [MatchTerm0 EXCEPT !.Address = a]

ZoneMenu ==
  { [Zone0 EXCEPT !.Name = "example.com", !.Type = "primary",
                  !.File = "/var/named/example.com.zone"],
    [Zone0 EXCEPT !.Name = "example.net", !.Type = "secondary",
                  !.PrimariesRef = "upstream-dns"] }

ModelMenu ==
  { Config0,
    [Config0 EXCEPT
       !.ACLs = <<[Name |-> "internal",
                   Elements |-> <<[MatchTerm0 EXCEPT
                                     !.Nested = <<address("10.0.0.0/8"),
                                                  [aclRef("bogons") EXCEPT !.Not = TRUE]>>]>>]>>],
    [Config0 EXCEPT
       !.Views = <<[View0 EXCEPT !.Name = "external"]>>,
       !.Zones = <<[Zone0 EXCEPT !.Name = "example.org"]>>],
    [Config0 EXCEPT
       !.Includes = <<[Path |-> "/etc/a.conf"], [Path |-> "/etc/b.conf"]>>,
       !.ACLs = <<[Name |-> "trusted", Elements |-> <<address("10.0.0.0/8")>>]>>,
       !.Keys = <<[Name |-> "k", Algorithm |-> "hmac-sha256", Secret |-> "c2VjcmV0"]>>,
       !.KeyStores = <<[Name |-> "hsm", PKCS11URI |-> "pkcs11:token=a"]>>,
       !.RemoteServers =
          <<[Name |-> "upstream-dns",
             Servers |-> <<[RemoteServerItem0 EXCEPT !.Address = "192.0.2.1",
                                                     !.Port = <<GoInt(53)>>]>>]>>,
       !.TLS = <<[TLS0 EXCEPT !.Name = "mytls", !.CertFile = "/etc/cert.pem"]>>,
       !.HTTP = <<[HTTP0 EXCEPT !.Name = "doh", !.Endpoints = <<"/dns-query">>]>>,
       !.Controls = <<Controls0>>,
       !.Logging = <<Logging0>>,
       !.Options = <<[Options0 EXCEPT !.Directory = "/var/named",
                                      !.Recursion = <<FALSE>>]>>,
       !.TrustAnchors =
          <<[Items |-> <<[Name |-> ".", DS |-> "static-ds 20326 8 2 \"E06D\"",
                          DNSKey |-> ""]>>]>>,
       !.Views = <<[View0 EXCEPT !.Name = "internal"],
                   [View0 EXCEPT !.Name = "external",
                                 !.Zones = <<[Zone0 EXCEPT !.Name = "example.net"]>>]>>,
       !.Zones = <<[Zone0 EXCEPT !.Name = "example.com", !.Type = "primary"],
                   [Zone0 EXCEPT !.Name = "example.org", !.Class = "IN"]>>] }

\* the fields of Config a caller may empty (a list) or set to nil (a pointer).
ConfigFields ==
  {"Includes", "ACLs", "Keys", "KeyStores", "RemoteServers", "TLS", "HTTP",
   "Controls", "Logging", "Options", "TrustAnchors", "Views", "Zones"}

SingletonFields == {"Controls", "Logging", "Options"}

\* &Controls{}, &Logging{}, &Options{}: the block with no children.
emptySingleton(fld) ==
  IF fld = "Controls" THEN Controls0
  ELSE IF fld = "Logging" THEN Logging0
  ELSE Options0

(***************************************************************************)
(* The state machine: a caller obtains a Config (FromFile, or built in     *)
(* memory), may edit it, and applies or saves it.                          *)
(*   nodes    f.Nodes of the file f the caller holds                        *)
(*   cfg      the Config, <<>> before one exists, else <<c>>                *)
(*   ast      c.ast # nil (it then points to f)                             *)
(*   op, err  the last operation and what it returned: "nil", "no-ast"      *)
(*            (the missing-tree error of Apply and Save), "io" (the error   *)
(*            of the external writer) or "panic"                            *)
(*   before   f.Nodes as they were when the last Apply or Save began        *)
(*   disk     what the external writer persisted, <<>> when nothing         *)
(*   pristine the Config came from FromFile and was not changed since       *)
(*   codec    the state of a codec run (idle here; see SpecCodec)           *)
(***************************************************************************)
VARIABLES nodes, cfg, ast, op, err, before, disk, pristine, codec, call, alt,
          ref

vars == <<nodes, cfg, ast, op, err, before, disk, pristine, codec, call,
          alt, ref>>

CodecIdle == [kind |-> "idle"]

\* no accessor has been called.
NoCall == [name |-> "none"]

\* a second tree g the caller holds beside f: its node list, and whether
\* c.ast points to it (rather than to f) when c.ast is set.
NoAlt == [Nodes |-> <<>>, isAst |-> FALSE]

Init ==
  /\ nodes \in InitFiles
  /\ cfg = <<>>
  /\ ast = FALSE
  /\ op = "init"
  /\ err = "nil"
  /\ before = <<>>
  /\ disk = <<>>
  /\ pristine = FALSE
  /\ codec = CodecIdle
  /\ call = NoCall
  /\ alt = NoAlt
  /\ ref = NoRef

\* cfg, err := FromFile(f)
FromFileStep ==
  /\ op = "init"
  /\ op' = "FromFile"
  /\ IF FromFilePanics(nodes)
     THEN /\ err' = "panic"
          /\ UNCHANGED <<cfg, ast, pristine>>
     ELSE /\ err' = "nil"
          /\ cfg' = <<FromFile(nodes)>>
          /\ ast' = TRUE
          /\ pristine' = TRUE
  /\ UNCHANGED <<nodes, before, disk, codec, call, alt, ref>>

\* c := &Config{...}: a model built in memory, with no backing tree.
NewConfigStep ==
  /\ op = "init"
  /\ \E m \in ModelMenu : cfg' = <<m>>
  /\ op' = "NewConfig"
  /\ err' = "nil"
  /\ UNCHANGED <<nodes, ast, before, disk, pristine, codec, call, alt, ref>>

\* the caller holds a Config it has not edited yet.
Editable == op \in {"FromFile", "NewConfig"} /\ cfg # <<>>

\* c.<field> = nil: a list emptied, a singleton pointer cleared.
ClearField ==
  /\ Editable
  /\ \E fld \in ConfigFields :
       /\ cfg[1][fld] # <<>>
       /\ cfg' = <<[cfg[1] EXCEPT ![fld] = <<>>]>>
  /\ op' = "ClearField"
  /\ pristine' = FALSE
  /\ UNCHANGED <<nodes, ast, err, before, disk, codec, call, alt, ref>>

\* c.Options = &Options{} and the like: a singleton with no children.
SetEmptySingleton ==
  /\ Editable
  /\ \E fld \in SingletonFields :
       cfg' = <<[cfg[1] EXCEPT ![fld] = <<emptySingleton(fld)>>]>>
  /\ op' = "SetEmptySingleton"
  /\ pristine' = FALSE
  /\ UNCHANGED <<nodes, ast, err, before, disk, codec, call, alt, ref>>

UpsertZoneStep ==
  /\ Editable
  /\ \E z \in ZoneMenu : cfg' = <<[cfg[1] EXCEPT !.Zones = UpsertZone(@, z)]>>
  /\ op' = "UpsertZone"
  /\ pristine' = FALSE
  /\ UNCHANGED <<nodes, ast, err, before, disk, codec, call, alt, ref>>

SetRecursionStep ==
  /\ Editable
  /\ \E b \in BOOLEAN : cfg' = <<[cfg[1] EXCEPT !.Options = SetRecursion(@, b)]>>
  /\ op' = "SetRecursion"
  /\ pristine' = FALSE
  /\ UNCHANGED <<nodes, ast, err, before, disk, codec, call, alt, ref>>

ApplyOps == {"Apply", "ApplyNil"}

\* the caller holds a Config it has not applied or saved yet.
Applicable == cfg # <<>> /\ op \notin ApplyOps \cup {"Save"}

\* err := c.Apply(f) with f the caller's file ("Apply"), or c.Apply(nil)
\* ("ApplyNil").
ApplyStep ==
  /\ Applicable
  /\ \E argIsNil \in BOOLEAN :
       /\ op' = IF argIsNil THEN "ApplyNil" ELSE "Apply"
       /\ IF ApplyFails(argIsNil, ast)
          THEN /\ err' = "no-ast"
               /\ UNCHANGED <<nodes, ast>>
          ELSE /\ err' = "nil"
               /\ nodes' = ApplyNodes(cfg[1], nodes)
               /\ ast' = TRUE
  /\ before' = nodes
  /\ UNCHANGED <<cfg, disk, pristine, codec, call, alt, ref>>

\* err := c.Save(path): the missing-tree check, Apply(c.ast), then the
\* external writer, which succeeds or returns its own error.
SaveStep ==
  /\ Applicable
  /\ IF SaveFails(ast)
     THEN /\ err' = "no-ast"
          /\ UNCHANGED <<nodes, disk>>
     ELSE /\ nodes' = ApplyNodes(cfg[1], nodes)
          /\ \E written \in BOOLEAN :
               IF written
               THEN err' = "nil" /\ disk' = <<ApplyNodes(cfg[1], nodes)>>
               ELSE err' = "io" /\ UNCHANGED disk
  /\ op' = "Save"
  /\ before' = nodes
  /\ UNCHANGED <<cfg, ast, pristine, codec, call, alt, ref>>

Next ==
  \/ FromFileStep
  \/ NewConfigStep
  \/ ClearField
  \/ SetEmptySingleton
  \/ UpsertZoneStep
  \/ SetRecursionStep
  \/ ApplyStep
  \/ SaveStep

Spec == Init /\ [][Next]_vars

(***************************************************************************)
(* The codecs run on their own: a text is decoded, the value encoded and   *)
(* the encoding decoded again.  codec holds the run:                        *)
(*   kind      "match" (an address match list) or "listen" (a listen clause)*)
(*   stage     "input", "decoded", "encoded", "redecoded"                   *)
(*   text      the input text (of a codec that reads text)                  *)
(*   runes     the input text as code points (of the boolean decoder)     *)
(*   stmt      the input statement (of a codec that reads a statement)      *)
(*   expected  what the grammar says the text means                         *)
(*   decoded, encoded, redecoded   the results so far (<<>>, "" before)     *)
(*   built     the statement an encoder built, where it builds one          *)
(***************************************************************************)
MaxElems == 2

Term(f, v) == [MatchTerm0 EXCEPT ![f] = v]

Negated(t) == [t EXCEPT !.Not = TRUE]

\* elements of an address match list as they are written, each with the
\* term it denotes.
ElemMenu ==
  { [text |-> "10.0.0.0/8",       term |-> Term("Address", "10.0.0.0/8")],
    [text |-> "192.168.1.1",      term |-> Term("Address", "192.168.1.1")],
    [text |-> "2001:db8::1",      term |-> Term("Address", "2001:db8::1")],
    [text |-> "!10.1.0.0/16",     term |-> Negated(Term("Address", "10.1.0.0/16"))],
    [text |-> "any",              term |-> Term("ACLRef", "any")],
    [text |-> "\"trusted\"",      term |-> Term("ACLRef", "trusted")],
    [text |-> "!bogons",          term |-> Negated(Term("ACLRef", "bogons"))],
    [text |-> "1.2.3",            term |-> Term("ACLRef", "1.2.3")],
    [text |-> "key \"rndc-key\"", term |-> Term("Key", "rndc-key")],
    [text |-> "! key tsig",       term |-> Negated(Term("Key", "tsig"))],
    [text |-> "{ 10.0.0.0/8; !bogons; }",
     term |-> Term("Nested", <<Term("Address", "10.0.0.0/8"),
                               Negated(Term("ACLRef", "bogons"))>>)],
    [text |-> "!{ any; }",
     term |-> Negated(Term("Nested", <<Term("ACLRef", "any")>>))],
    [text |-> "!",                term |-> Negated(MatchTerm0)],
    [text |-> "\"\"",             term |-> MatchTerm0],
    [text |-> "key \"\"",         term |-> MatchTerm0],
    [text |-> "{ }",              term |-> MatchTerm0] }

RECURSIVE listText(_, _)
\* the elements from the i-th on, each followed by its semicolon.
listText(es, i) ==
  IF i > Len(es) THEN ""
  ELSE es[i].text \o "; " \o listText(es, i + 1)

MatchInputs ==
  { [kind |-> "match", stage |-> "input",
     text |-> "{ " \o listText(es, 1) \o "}",
     expected |-> [i \in 1..Len(es) |-> es[i].term],
     stmt |-> Raw(""), decoded |-> <<>>, encoded |-> "", built |-> Raw(""),
     redecoded |-> <<>>] :
      es \in UNION { [1..n -> ElemMenu] : n \in 0..MaxElems } }

ListenWords == {"port", "tls", "http"}

\* the leading clauses of a listen clause: any subset in any order.
ListenOrders ==
  { q \in UNION { [1..n -> ListenWords] : n \in 0..Cardinality(ListenWords) } :
      \A i, j \in 1..Len(q) : i # j => q[i] # q[j] }

clauseText(w) ==
  IF w = "port" THEN "port 53"
  ELSE IF w = "tls" THEN "tls \"mytls\""
  ELSE "http myhttp"

ListenLists ==
  { "{ any; }", "{ 10.0.0.0/8; !bogons; }", "{ 127.0.0.1; key \"rndc-key\"; }",
    "{ }", "{ \"my-acl\"; !192.168.1.1; }", "{ { 10.0.0.0/8; !bogons; }; }" }

Has(q, w) == \E i \in 1..Len(q) : q[i] = w

ListenInputs ==
  { [kind |-> "listen", stage |-> "input",
     text |-> Join([i \in 1..Len(q) |-> clauseText(q[i])] \o <<l>>, " "),
     expected |-> [Port  |-> IF Has(q, "port") THEN <<GoInt(53)>> ELSE <<>>,
                   TLS   |-> IF Has(q, "tls") THEN "mytls" ELSE "",
                   HTTP  |-> IF Has(q, "http") THEN "myhttp" ELSE "",
                   Addrs |-> parseMatchListFromBodyRaw(l)],
     stmt |-> Raw(""), decoded |-> <<>>, encoded |-> "", built |-> Raw(""),
     redecoded |-> <<>>] :
      q \in ListenOrders, l \in ListenLists }

InetWords == {"port", "allow", "keys", "read-only"}

\* the keyword groups of a control line after the address: any subset in
\* any order.
InetOrders ==
  { q \in UNION { [1..n -> InetWords] : n \in 0..Cardinality(InetWords) } :
      \A i, j \in 1..Len(q) : i # j => q[i] # q[j] }

inetGroupText(w) ==
  IF w = "port" THEN "port 953"
  ELSE IF w = "allow" THEN "allow { localhost; }"
  ELSE IF w = "keys" THEN "keys { \"rndc-key\"; }"
  ELSE "read-only yes"

InetInputs ==
  { [kind |-> "inet", stage |-> "input",
     text |-> Join(<<"inet 127.0.0.1">> \o [i \in 1..Len(q) |-> inetGroupText(q[i])], " "),
     expected |-> [Address  |-> "127.0.0.1",
                   Port     |-> IF Has(q, "port") THEN <<GoInt(953)>> ELSE <<>>,
                   Allow    |-> IF Has(q, "allow")
                                THEN <<Term("ACLRef", "localhost")>> ELSE <<>>,
                   Keys     |-> IF Has(q, "keys") THEN <<"rndc-key">> ELSE <<>>,
                   ReadOnly |-> IF Has(q, "read-only") THEN <<TRUE>> ELSE <<>>],
     stmt |-> Raw(""), decoded |-> <<>>, encoded |-> "", built |-> Raw(""),
     redecoded |-> <<>>] :
      q \in InetOrders }

DSItem(name, rest) == [Name |-> name, DS |-> rest, DNSKey |-> ""]

DNSKeyItem(name, rest) == [Name |-> name, DS |-> "", DNSKey |-> rest]

\* entries of a trust-anchors block as they are written, each with the
\* items it denotes: a DS item when what follows the name contains 'ds',
\* else a DNSKEY item when it contains 'key', else none.
AnchorMenu ==
  { [text  |-> "\".\" static-ds 20326 8 2 \"E06D\";",
     items |-> <<DSItem(".", "static-ds 20326 8 2 \"E06D\"")>>],
    [text  |-> "\"example.com\" initial-ds 1 8 2 \"AB\";",
     items |-> <<DSItem("example.com", "initial-ds 1 8 2 \"AB\"")>>],
    [text  |-> "\".\" initial-key 257 3 8 \"AwEAAa\";",
     items |-> <<DNSKeyItem(".", "initial-key 257 3 8 \"AwEAAa\"")>>],
    [text  |-> "\"example.net\"  static-key 257 3 8 \"QQ==\"",
     items |-> <<DNSKeyItem("example.net", "static-key 257 3 8 \"QQ==\"")>>],
    [text  |-> "\"both.example\" static-ds 1 8 2 \"key\";",
     items |-> <<DSItem("both.example", "static-ds 1 8 2 \"key\"")>>],
    [text  |-> "\"dropped.example\" bogus 1 2 3;", items |-> <<>>],
    [text  |-> "\"ds.example\" bogus;", items |-> <<>>],
    [text  |-> "\"keys.example\";", items |-> <<>>],
    [text  |-> "\"ds.example\"\tbogus 1;", items |-> <<>>] }

RECURSIVE anchorItems(_, _)
anchorItems(es, i) ==
  IF i > Len(es) THEN <<>> ELSE es[i].items \o anchorItems(es, i + 1)

AnchorInputs ==
  { [kind |-> "anchors", stage |-> "input",
     text |-> "",
     stmt |-> Stmt("trust-anchors", "trust-anchors",
                   [i \in 1..Len(es) |-> NewSimpleStmt(es[i].text)]),
     expected |-> [Items |-> anchorItems(es, 1)],
     decoded |-> <<>>, encoded |-> "", built |-> Raw(""), redecoded |-> <<>>] :
      es \in UNION { [1..n -> AnchorMenu] : n \in 0..MaxElems } }

\* boolean tokens, given as their code points, with the value their first
\* word denotes (<<>>: absent).  Besides the ASCII white space the tokens
\* hold U+0085, U+00A0, U+1680, U+2003, U+2028, U+202F and U+3000, which
\* separate words; U+200B, which does not; and letters outside ASCII:
\* U+017F (long s) and U+FF39 U+FF25 U+FF33 (fullwidth YES), which no
\* lower-casing makes 'yes', and U+039F (Greek capital omicron).
BoolMenu ==
  { [runes |-> Runes("yes"), val |-> <<TRUE>>],
    [runes |-> Runes("no"), val |-> <<FALSE>>],
    [runes |-> Runes("YES"), val |-> <<TRUE>>],
    [runes |-> Runes("No"), val |-> <<FALSE>>],
    [runes |-> Runes("  yes  "), val |-> <<TRUE>>],
    [runes |-> Runes("\tnO\n"), val |-> <<FALSE>>],
    [runes |-> Runes("yes no"), val |-> <<TRUE>>],
    [runes |-> Runes("no yes"), val |-> <<FALSE>>],
    [runes |-> Runes("\fyEs") \o <<11>> \o Runes("x"), val |-> <<TRUE>>],
    [runes |-> Runes("yes") \o <<160>>, val |-> <<TRUE>>],
    [runes |-> <<8195>> \o Runes("no"), val |-> <<FALSE>>],
    [runes |-> Runes("YES") \o <<12288>> \o Runes("no"), val |-> <<TRUE>>],
    [runes |-> Runes("No") \o <<133>> \o Runes("x"), val |-> <<FALSE>>],
    [runes |-> <<5760>> \o Runes("nO") \o <<8239>> \o Runes("yes"),
     val |-> <<FALSE>>],
    [runes |-> <<12288>> \o Runes("No") \o <<8232>> \o Runes("yes"),
     val |-> <<FALSE>>],
    [runes |-> Runes(""), val |-> <<>>],
    [runes |-> Runes("   "), val |-> <<>>],
    [runes |-> <<5760, 8195, 160>>, val |-> <<>>],
    [runes |-> Runes("true"), val |-> <<>>],
    [runes |-> Runes("false"), val |-> <<>>],
    [runes |-> Runes("0"), val |-> <<>>],
    [runes |-> Runes("on"), val |-> <<>>],
    [runes |-> Runes("yesno"), val |-> <<>>],
    [runes |-> Runes("nope"), val |-> <<>>],
    [runes |-> Runes("yes;"), val |-> <<>>],
    [runes |-> Runes("maybe yes"), val |-> <<>>],
    [runes |-> Runes("off no"), val |-> <<>>],
    [runes |-> Runes("yes") \o <<8203>>, val |-> <<>>],
    [runes |-> Runes("no") \o <<8203>> \o Runes(" yes"), val |-> <<>>],
    [runes |-> Runes("ye") \o <<383>>, val |-> <<>>],
    [runes |-> <<65337, 65317, 65331>>, val |-> <<>>],
    [runes |-> <<78, 927>>, val |-> <<>>],
    [runes |-> <<233>> \o Runes(" yes"), val |-> <<>>] }

BoolInputs ==
  { [kind |-> "bool", stage |-> "input", text |-> "", runes |-> m.runes,
     stmt |-> Raw(""), expected |-> m.val,
     decoded |-> <<>>, encoded |-> "", built |-> Raw(""), redecoded |-> <<>>] :
      m \in BoolMenu }

\* children of a zone block as they are written; 'notify' and 'masterfile-
\* format' are statements the model has no field for.
ZoneChildMenu ==
  { "type primary",
    "file \"/var/named/example.com.zone\"",
    "primaries upstream-dns",
    "primaries { 192.0.2.1; }",
    "forward only",
    "dnssec-policy \"default\"",
    "notify yes",
    "masterfile-format text" }

\* zone blocks of a file: zone "example.com" { <children> }
ZoneInputs ==
  { [kind |-> "zone", stage |-> "input", text |-> "",
     stmt |-> NewBlockStmt("zone \"example.com\"",
                           [i \in 1..Len(cs) |-> NewSimpleStmt(cs[i])]),
     expected |-> <<>>, decoded |-> Zone0, encoded |-> "", built |-> Raw(""),
     redecoded |-> <<>>] :
      cs \in UNION { [1..n -> ZoneChildMenu] : n \in 0..MaxElems } }

\* children of a view block as they are written; 'allow-query' and 'notify'
\* are statements View has no field for, and the nested zone holds one too.
ViewChildMenu ==
  { NewSimpleStmt("match-clients { trusted; }"),
    NewSimpleStmt("recursion yes"),
    NewSimpleStmt("recursion maybe"),
    NewSimpleStmt("include \"/etc/named/internal.conf\""),
    NewSimpleStmt("allow-query { any; }"),
    NewSimpleStmt("notify yes"),
    NewBlockStmt("zone \"int.example\"",
                 <<NewSimpleStmt("type primary"), NewSimpleStmt("notify yes")>>) }

\* view blocks of a file: view "internal" { <children> }
ViewInputs ==
  { [kind |-> "view", stage |-> "input", text |-> "",
     stmt |-> NewBlockStmt("view \"internal\"", cs),
     expected |-> <<>>, decoded |-> View0, encoded |-> "", built |-> Raw(""),
     redecoded |-> <<>>] :
      cs \in UNION { [1..n -> ViewChildMenu] : n \in 0..MaxElems } }

\* zones a caller builds in memory: the two primaries fields are plain
\* fields of the struct, each of which may be set.
ZoneModels ==
  ZoneMenu \cup
  { [Zone0 EXCEPT !.Name = "example.org", !.Type = "secondary",
                  !.Primaries = <<[RemoteServerItem0 EXCEPT
                                     !.Address = "192.0.2.1"]>>],
    [Zone0 EXCEPT !.Name = "example.org", !.Type = "secondary",
                  !.PrimariesRef = "upstream-dns",
                  !.Primaries = <<[RemoteServerItem0 EXCEPT
                                     !.Address = "192.0.2.1"]>>] }

ZoneModelInputs ==
  { [kind |-> "zonemodel", stage |-> "model", text |-> "", stmt |-> Raw(""),
     expected |-> <<>>, decoded |-> z, encoded |-> "", built |-> Raw(""),
     redecoded |-> <<>>] : z \in ZoneModels }

\* unix control channels a caller holds: a path without white space,
\* numeric permission, owner and group, a key list and a read-only flag.
UnixModels ==
  { [Path |-> pa, Perm |-> pe, Owner |-> ow, Group |-> gr, Keys |-> ks,
     ReadOnly |-> ro] :
      pa \in {"/run/named/ndc.sock", "/var/run/ndc"},
      pe \in {GoInt(0), GoInt(384), GoInt(420)},
      ow \in {GoInt(0), GoInt(25)}, gr \in {GoInt(0), GoInt(25)},
      ks \in {<<>>, <<"rndc-key">>, <<"rndc-key", "backup">>},
      ro \in {<<>>, <<TRUE>>, <<FALSE>>} }

UnixInputs ==
  { [kind |-> "unix", stage |-> "model", text |-> "", stmt |-> Raw(""),
     expected |-> u, decoded |-> ControlUnix0, encoded |-> "",
     built |-> Raw(""), redecoded |-> <<>>] : u \in UnixModels }

InitCodec ==
  /\ codec \in MatchInputs \cup ListenInputs \cup InetInputs
               \cup AnchorInputs \cup BoolInputs
               \cup ZoneInputs \cup ZoneModelInputs \cup ViewInputs
               \cup UnixInputs
  /\ nodes = <<>>
  /\ cfg = <<>>
  /\ ast = FALSE
  /\ op = "codec"
  /\ err = "nil"
  /\ before = <<>>
  /\ disk = <<>>
  /\ pristine = FALSE
  /\ call = NoCall
  /\ alt = NoAlt
  /\ ref = NoRef

\* terms := parseMatchListFromBodyRaw(text)
DecodeMatchList ==
  /\ codec.kind = "match" /\ codec.stage = "input"
  /\ codec' = [codec EXCEPT !.stage = "decoded",
                            !.decoded = parseMatchListFromBodyRaw(codec.text)]
  /\ UNCHANGED <<nodes, cfg, ast, op, err, before, disk, pristine, call, alt, ref>>

\* L := parseListen(text)
DecodeListen ==
  /\ codec.kind = "listen" /\ codec.stage = "input"
  /\ codec' = [codec EXCEPT !.stage = "decoded",
                            !.decoded = parseListen(codec.text)]
  /\ UNCHANGED <<nodes, cfg, ast, op, err, before, disk, pristine, call, alt, ref>>

\* s := serializeListen(*L)
EncodeListen ==
  /\ codec.kind = "listen" /\ codec.stage = "decoded"
  /\ codec' = [codec EXCEPT !.stage = "encoded",
                            !.encoded = serializeListen(codec.decoded)]
  /\ UNCHANGED <<nodes, cfg, ast, op, err, before, disk, pristine, call, alt, ref>>

\* L2 := parseListen(s)
RedecodeListen ==
  /\ codec.kind = "listen" /\ codec.stage = "encoded"
  /\ codec' = [codec EXCEPT !.stage = "redecoded",
                            !.redecoded = parseListen(codec.encoded)]
  /\ UNCHANGED <<nodes, cfg, ast, op, err, before, disk, pristine, call, alt, ref>>

\* ci := parseControlInet(text)
DecodeControlInet ==
  /\ codec.kind = "inet" /\ codec.stage = "input"
  /\ codec' = [codec EXCEPT !.stage = "decoded",
                            !.decoded = parseControlInet(codec.text)]
  /\ UNCHANGED <<nodes, cfg, ast, op, err, before, disk, pristine, call, alt, ref>>

\* ta := parseTrustAnchors(st)
DecodeTrustAnchors ==
  /\ codec.kind = "anchors" /\ codec.stage = "input"
  /\ codec' = [codec EXCEPT !.stage = "decoded",
                            !.decoded = parseTrustAnchors(codec.stmt)]
  /\ UNCHANGED <<nodes, cfg, ast, op, err, before, disk, pristine, call, alt, ref>>

\* st := buildTrustAnchors(ta)
EncodeTrustAnchors ==
  /\ codec.kind = "anchors" /\ codec.stage = "decoded"
  /\ codec' = [codec EXCEPT !.stage = "encoded",
                            !.built = buildTrustAnchors(codec.decoded)]
  /\ UNCHANGED <<nodes, cfg, ast, op, err, before, disk, pristine, call, alt, ref>>

\* ta2 := parseTrustAnchors(st)
RedecodeTrustAnchors ==
  /\ codec.kind = "anchors" /\ codec.stage = "encoded"
  /\ codec' = [codec EXCEPT !.stage = "redecoded",
                            !.redecoded = parseTrustAnchors(codec.built)]
  /\ UNCHANGED <<nodes, cfg, ast, op, err, before, disk, pristine, call, alt, ref>>

\* b := parseBoolPtr(text), the text given as its code points
DecodeBool ==
  /\ codec.kind = "bool" /\ codec.stage = "input"
  /\ codec' = [codec EXCEPT !.stage = "decoded",
                            !.decoded = parseBoolPtrRunes(codec.runes)]
  /\ UNCHANGED <<nodes, cfg, ast, op, err, before, disk, pristine, call, alt, ref>>

\* st := buildOptions(Options{Recursion: b})
EncodeBool ==
  /\ codec.kind = "bool" /\ codec.stage = "decoded"
  /\ codec' = [codec EXCEPT !.stage = "encoded",
                 !.built = buildOptions([Options0 EXCEPT
                                           !.Recursion = codec.decoded])]
  /\ UNCHANGED <<nodes, cfg, ast, op, err, before, disk, pristine, call, alt, ref>>

\* z := parseZone(st)
DecodeZone ==
  /\ codec.kind = "zone" /\ codec.stage = "input"
  /\ codec' = [codec EXCEPT !.stage = "decoded",
                            !.decoded = parseZone(codec.stmt)]
  /\ UNCHANGED <<nodes, cfg, ast, op, err, before, disk, pristine, call, alt, ref>>

\* st := buildZone(z), of a decoded zone or of one built in memory
EncodeZone ==
  /\ \/ codec.kind = "zone" /\ codec.stage = "decoded"
     \/ codec.kind = "zonemodel" /\ codec.stage = "model"
  /\ codec' = [codec EXCEPT !.stage = "encoded",
                            !.built = buildZone(codec.decoded)]
  /\ UNCHANGED <<nodes, cfg, ast, op, err, before, disk, pristine, call, alt, ref>>

\* v := parseView(st)
DecodeView ==
  /\ codec.kind = "view" /\ codec.stage = "input"
  /\ codec' = [codec EXCEPT !.stage = "decoded",
                            !.decoded = parseView(codec.stmt)]
  /\ UNCHANGED <<nodes, cfg, ast, op, err, before, disk, pristine, call, alt, ref>>

\* st := buildView(v)
EncodeView ==
  /\ codec.kind = "view" /\ codec.stage = "decoded"
  /\ codec' = [codec EXCEPT !.stage = "encoded",
                            !.built = buildView(codec.decoded)]
  /\ UNCHANGED <<nodes, cfg, ast, op, err, before, disk, pristine, call, alt, ref>>

\* text := serializeControlUnix(u)
EncodeControlUnix ==
  /\ codec.kind = "unix" /\ codec.stage = "model"
  /\ codec' = [codec EXCEPT !.stage = "encoded",
                            !.encoded = serializeControlUnix(codec.expected)]
  /\ UNCHANGED <<nodes, cfg, ast, op, err, before, disk, pristine, call, alt, ref>>

\* u2 := parseControlUnix(text)
DecodeControlUnix ==
  /\ codec.kind = "unix" /\ codec.stage = "encoded"
  /\ codec' = [codec EXCEPT !.stage = "decoded",
                            !.decoded = parseControlUnix(codec.encoded)]
  /\ UNCHANGED <<nodes, cfg, ast, op, err, before, disk, pristine, call, alt, ref>>

NextCodec ==
  \/ DecodeBool
  \/ EncodeBool
  \/ DecodeMatchList
  \/ DecodeListen
  \/ EncodeListen
  \/ RedecodeListen
  \/ DecodeControlInet
  \/ DecodeTrustAnchors
  \/ EncodeTrustAnchors
  \/ RedecodeTrustAnchors
  \/ DecodeZone
  \/ EncodeZone
  \/ DecodeView
  \/ EncodeView
  \/ EncodeControlUnix
  \/ DecodeControlUnix

SpecCodec == InitCodec /\ [][NextCodec]_vars

(***************************************************************************)
(* The accessors of api.go, called in any order on a Config the caller     *)
(* holds in memory.  call records the last call, its arguments, its        *)
(* result, the Config before it (pre) and the number of calls so far.      *)
(***************************************************************************)
MaxCalls == 2

zA1 == [Zone0 EXCEPT !.Name = "example.com", !.Type = "primary"]
zA2 == [Zone0 EXCEPT !.Name = "example.com", !.Type = "secondary"]
zB1 == [Zone0 EXCEPT !.Name = "example.net", !.Type = "primary"]
zC1 == [Zone0 EXCEPT !.Name = "example.org", !.Type = "hint"]

ZoneArgs == {zA1, zA2, zB1, zC1}

ZoneNames == {"example.com", "example.net", "example.org"}

ViewNames == {"internal", "external", "dmz"}

ViewArgs ==
  { [View0 EXCEPT !.Name = "internal"],
    [View0 EXCEPT !.Name = "internal", !.Recursion = <<TRUE>>, !.Zones = <<zA2>>],
    [View0 EXCEPT !.Name = "dmz", !.Zones = <<zB1>>] }

\* the trust anchors a caller sets: none, a DS anchor, a DNSKEY anchor.
AnchorArgs ==
  { [Items |-> <<>>],
    [Items |-> <<[Name |-> ".", DS |-> "static-ds 20326 8 2 \"E06D\"",
                  DNSKey |-> ""]>>],
    [Items |-> <<[Name |-> "example.com", DS |-> "",
                  DNSKey |-> "static-key 257 3 8 \"AwEA\""]>>] }

\* Configs a caller may hold: empty, with unique names, and with names
\* that occur twice (the struct allows both).
AccessModels ==
  { Config0,
    [Config0 EXCEPT
       !.Zones = <<zA1, zB1>>,
       !.Views = <<[View0 EXCEPT !.Name = "internal", !.Zones = <<zA2, zC1>>],
                   [View0 EXCEPT !.Name = "external", !.Recursion = <<FALSE>>]>>],
    [Config0 EXCEPT
       !.Zones = <<zA1, zB1, zA2>>,
       !.Views = <<[View0 EXCEPT !.Name = "external", !.Zones = <<zB1>>],
                   [View0 EXCEPT !.Name = "internal", !.Zones = <<zC1, zA1, zC1>>],
                   [View0 EXCEPT !.Name = "internal", !.Zones = <<zA2>>]>>] }

InitAccess ==
  /\ cfg \in { <<m>> : m \in AccessModels }
  /\ nodes = <<>>
  /\ ast = FALSE
  /\ op = "access"
  /\ err = "nil"
  /\ before = <<>>
  /\ disk = <<>>
  /\ pristine = FALSE
  /\ codec = CodecIdle
  /\ call = [NoCall EXCEPT !.name = "held"]
  /\ alt = NoAlt
  /\ ref = NoRef

Calls == IF call.name = "held" THEN 0 ELSE call.n

\* the record of a call made now.
Called(name, arg, z, v, ret) ==
  [name |-> name, arg |-> arg, zone |-> z, view |-> v, ret |-> ret,
   pre |-> cfg[1], n |-> Calls + 1]

\* c.UpsertZone(z)
UpsertZoneCall ==
  /\ Calls < MaxCalls
  /\ \E z \in ZoneArgs :
       /\ cfg' = <<[cfg[1] EXCEPT !.Zones = UpsertZone(@, z)]>>
       /\ call' = Called("UpsertZone", z.Name, z, View0, FALSE)
       /\ ref' = refAfterUpsert(ref, cfg[1].Zones, z)
  /\ UNCHANGED <<nodes, ast, op, err, before, disk, pristine, codec, alt>>

\* removed := c.RemoveZone(name)
RemoveZoneCall ==
  /\ Calls < MaxCalls
  /\ \E name \in ZoneNames :
       LET r == RemoveZone(cfg[1].Zones, name)
       IN /\ cfg' = <<[cfg[1] EXCEPT !.Zones = r.out]>>
          /\ call' = Called("RemoveZone", name, Zone0, View0, r.removed)
          /\ ref' = refAfterRemove(ref, cfg[1].Zones, name)
  /\ UNCHANGED <<nodes, ast, op, err, before, disk, pristine, codec, alt>>

\* c.UpsertView(v)
UpsertViewCall ==
  /\ Calls < MaxCalls
  /\ \E v \in ViewArgs :
       /\ cfg' = <<[cfg[1] EXCEPT !.Views = UpsertView(@, v)]>>
       /\ call' = Called("UpsertView", v.Name, Zone0, v, FALSE)
  /\ UNCHANGED <<nodes, ast, op, err, before, disk, pristine, codec, alt, ref>>

\* removed := c.RemoveView(name)
RemoveViewCall ==
  /\ Calls < MaxCalls
  /\ \E name \in ViewNames :
       LET r == RemoveView(cfg[1].Views, name)
       IN /\ cfg' = <<[cfg[1] EXCEPT !.Views = r.out]>>
          /\ call' = Called("RemoveView", name, Zone0, View0, r.removed)
  /\ UNCHANGED <<nodes, ast, op, err, before, disk, pristine, codec, alt, ref>>

\* c.UpsertZoneInView(viewName, z)
UpsertZoneInViewCall ==
  /\ Calls < MaxCalls
  /\ \E viewName \in ViewNames, z \in ZoneArgs :
       /\ cfg' = <<[cfg[1] EXCEPT !.Views = UpsertZoneInView(@, viewName, z)]>>
       /\ call' = Called("UpsertZoneInView", viewName, z, View0, FALSE)
  /\ UNCHANGED <<nodes, ast, op, err, before, disk, pristine, codec, alt, ref>>

\* removed := c.RemoveZoneInView(viewName, zoneName)
RemoveZoneInViewCall ==
  /\ Calls < MaxCalls
  /\ \E viewName \in ViewNames, zoneName \in ZoneNames :
       LET r == RemoveZoneInView(cfg[1].Views, viewName, zoneName)
       IN /\ cfg' = <<[cfg[1] EXCEPT !.Views = r.out]>>
          /\ call' = Called("RemoveZoneInView", viewName,
                            [Zone0 EXCEPT !.Name = zoneName], View0, r.removed)
  /\ UNCHANGED <<nodes, ast, op, err, before, disk, pristine, codec, alt, ref>>

\* c.SetTrustAnchorsInView(viewName, ta)
SetTrustAnchorsInViewCall ==
  /\ Calls < MaxCalls
  /\ \E viewName \in ViewNames, ta \in AnchorArgs :
       /\ cfg' = <<[cfg[1] EXCEPT !.Views = SetTrustAnchorsInView(@, viewName, ta)]>>
       /\ call' = Called("SetTrustAnchorsInView", viewName, Zone0,
                         [View0 EXCEPT !.TrustAnchors = <<ta>>], FALSE)
  /\ UNCHANGED <<nodes, ast, op, err, before, disk, pristine, codec, alt, ref>>

NextAccess ==
  \/ UpsertZoneCall
  \/ RemoveZoneCall
  \/ UpsertViewCall
  \/ RemoveViewCall
  \/ UpsertZoneInViewCall
  \/ RemoveZoneInViewCall
  \/ SetTrustAnchorsInViewCall

SpecAccess == InitAccess /\ [][NextAccess]_vars

(***************************************************************************)
(* Apply and Save called repeatedly, on the tree f the model may have been *)
(* decoded from and on a second tree g.  call records the last Apply or    *)
(* Save: its argument (target), the tree it worked on, the state before it *)
(* (pre), the trees synced from the model before it, and the call count.   *)
(***************************************************************************)
MaxApplies == 2

\* the files f of the caller: empty, modeled blocks before unmodeled
\* nodes, modeled blocks in another order than Apply's.
TreeFiles ==
  { <<>>,
    <<MasterFile[1], MasterFile[2], MasterFile[4], MasterFile[5]>>,
    <<MasterFile[15], MasterFile[3], MasterFile[6], MasterFile[16]>> }

\* the second files g.
AltFiles ==
  { <<>>,
    <<MasterFile[14], MasterFile[4], MasterFile[9], MasterFile[1]>> }

InitApply ==
  /\ nodes \in TreeFiles
  /\ alt \in { [Nodes |-> g, isAst |-> FALSE] : g \in AltFiles }
  /\ cfg = <<>>
  /\ ast = FALSE
  /\ op = "init"
  /\ err = "nil"
  /\ before = <<>>
  /\ disk = <<>>
  /\ pristine = FALSE
  /\ codec = CodecIdle
  /\ call = NoCall
  /\ ref = NoRef

\* the tree c.ast points to.
Backing == IF ~ast THEN "none" ELSE IF alt.isAst THEN "g" ELSE "f"

Applies == IF call.name = "none" THEN 0 ELSE call.n

\* the trees the model has been applied to so far.
Synced == IF call.name = "none" THEN {} ELSE call.synced \cup call.done

\* the record of an Apply or a Save made now on tree t, done telling
\* whether it got as far as the syncs.
TreeCall(name, target, t, done) ==
  [name |-> name, target |-> target, tree |-> t,
   pre |-> [nodes |-> nodes, alt |-> alt, cfg |-> cfg, backing |-> Backing,
            disk |-> disk],
   synced |-> Synced, done |-> IF done THEN {t} ELSE {}, n |-> Applies + 1]

\* err := c.Apply(f), c.Apply(g) or c.Apply(nil)
ApplyTreeStep ==
  /\ cfg # <<>>
  /\ Applies < MaxApplies
  /\ \E target \in {"f", "g", "nil"} :
       LET t == applyTree(target, Backing)
       IN /\ op' = IF target = "nil" THEN "ApplyNil" ELSE "Apply"
          /\ call' = TreeCall("Apply", target, t,
                              ~ApplyFails(target = "nil", ast))
          /\ IF ApplyFails(target = "nil", ast)
             THEN /\ err' = "no-ast"
                  /\ UNCHANGED <<nodes, alt, ast>>
             ELSE /\ err' = "nil"
                  /\ nodes' = IF t = "f" THEN ApplyNodes(cfg[1], nodes) ELSE nodes
                  /\ alt' = [Nodes |-> IF t = "g"
                                       THEN ApplyNodes(cfg[1], alt.Nodes)
                                       ELSE alt.Nodes,
                             isAst |-> astAfterApply(target, Backing) = "g"]
                  /\ ast' = TRUE
  /\ UNCHANGED <<cfg, before, disk, pristine, codec, ref>>

\* err := c.Save(path): Apply(c.ast), then the external writer.
SaveTreeStep ==
  /\ cfg # <<>>
  /\ Applies < MaxApplies
  /\ op' = "Save"
  /\ call' = TreeCall("Save", "nil", Backing, ~SaveFails(ast))
  /\ IF SaveFails(ast)
     THEN /\ err' = "no-ast"
          /\ UNCHANGED <<nodes, alt, disk>>
     ELSE /\ nodes' = IF Backing = "f" THEN ApplyNodes(cfg[1], nodes) ELSE nodes
          /\ alt' = [alt EXCEPT !.Nodes = IF Backing = "g"
                                          THEN ApplyNodes(cfg[1], @) ELSE @]
          /\ \E written \in BOOLEAN :
               IF written
               THEN /\ err' = "nil"
                    /\ disk' = <<IF Backing = "g" THEN alt'.Nodes ELSE nodes'>>
               ELSE err' = "io" /\ UNCHANGED disk
  /\ UNCHANGED <<cfg, ast, before, pristine, codec, ref>>

NextApply ==
  \/ FromFileStep
  \/ NewConfigStep
  \/ UpsertZoneStep
  \/ ApplyTreeStep
  \/ SaveTreeStep

SpecApply == InitApply /\ [][NextApply]_vars

(***************************************************************************)
(* A caller that keeps the *Zone GetZone returned while it goes on calling *)
(* UpsertZone and RemoveZone, and then writes a field through it.          *)
(***************************************************************************)
RefModels ==
  { [Config0 EXCEPT !.Zones = <<zA1, zB1>>],
    [Config0 EXCEPT !.Zones = <<zB1, zA1, zC1>>],
    [Config0 EXCEPT
       !.Zones = <<zB1>>,
       !.Views = <<[View0 EXCEPT !.Name = "internal", !.Zones = <<zC1, zA2>>]>>] }

\* cap(c.Zones) - len(c.Zones) when GetZone is called is any number the
\* earlier appends and removals left; up to MaxSpare here, which is more
\* than the following calls can fill.
MaxSpare == 3

\* what a slot of c.Zones' array past its length can hold: the zero value
\* an append's new array starts with, or the copy of a zone that RemoveZone
\* left behind when it filtered in place (the tail is not cleared).
SpareZones == {Zone0} \cup ZoneArgs

\* the slots of c.Zones' array past its length.
SpareSlots == UNION { [1..k -> SpareZones] : k \in 0..MaxSpare }

InitRef ==
  /\ cfg \in { <<m>> : m \in RefModels }
  /\ nodes = <<>>
  /\ ast = FALSE
  /\ op = "access"
  /\ err = "nil"
  /\ before = <<>>
  /\ disk = <<>>
  /\ pristine = FALSE
  /\ codec = CodecIdle
  /\ call = [NoCall EXCEPT !.name = "held"]
  /\ alt = NoAlt
  /\ ref = NoRef

\* p := c.GetZone(name)
GetZoneStep ==
  /\ ~ref.held
  /\ \E name \in ZoneNames, spare \in SpareSlots :
       ref' = refOfGetZone(cfg[1], name, spare)
  /\ UNCHANGED <<nodes, cfg, ast, op, err, before, disk, pristine, codec,
                 call, alt>>

\* p.DNSSECPolicy = "default"
WriteRefStep ==
  /\ ref.held /\ ~ref.wrote
  /\ cfg' = <<cfgAfterWrite(ref, cfg[1], "default")>>
  /\ ref' = IF ref.where = "top"
            THEN [ref EXCEPT !.wrote = TRUE,
                             !.array[ref.slot].DNSSECPolicy = "default"]
            ELSE [ref EXCEPT !.wrote = TRUE]
  /\ UNCHANGED <<nodes, ast, op, err, before, disk, pristine, codec, call,
                 alt>>

NextRef ==
  \/ GetZoneStep
  \/ UpsertZoneCall
  \/ RemoveZoneCall
  \/ WriteRefStep

SpecRef == InitRef /\ [][NextRef]_vars

(***************************************************************************)
(* What the claims speak of.                                                *)
(***************************************************************************)

ModeledSet == {ModeledKeywords[i] : i \in 1..Len(ModeledKeywords)}

ListKeywords == ModeledSet \ {"controls", "logging", "options"}

SingletonKeywords == {"controls", "logging", "options"}

IsModeled(n) == IsStmt(n) /\ n.Keyword \in ModeledSet

\* the nodes Apply must leave alone, in order.
Unmodeled(ns) == SelectSeq(ns, LAMBDA n : ~IsModeled(n))

\* the top-level statements of keyword K, in order.
StmtsOf(ns, K) == SelectSeq(ns, LAMBDA n : IsStmt(n) /\ n.Keyword = K)

\* the last operation was an Apply or a Save that had a tree to work on.
Applied == op \in ApplyOps \cup {"Save"} /\ err # "no-ast"

\* the model field a keyword belongs to.
FieldOf(K) ==
  CASE K = "include" -> "Includes"
    [] K = "acl" -> "ACLs"
    [] K = "key" -> "Keys"
    [] K = "key-store" -> "KeyStores"
    [] K = "remote-servers" -> "RemoteServers"
    [] K = "tls" -> "TLS"
    [] K = "http" -> "HTTP"
    [] K = "controls" -> "Controls"
    [] K = "logging" -> "Logging"
    [] K = "options" -> "Options"
    [] K = "trust-anchors" -> "TrustAnchors"
    [] K = "view" -> "Views"
    [] K = "zone" -> "Zones"

\* the statement a model element of keyword K encodes to.
Encoded(K, x) ==
  CASE K = "include" -> NewSimpleStmt("include \"" \o x.Path \o "\"")
    [] K = "acl" -> buildACL(x)
    [] K = "key" -> buildKey(x)
    [] K = "key-store" -> buildKeyStore(x)
    [] K = "remote-servers" -> buildRemoteServers(x)
    [] K = "tls" -> buildTLS(x)
    [] K = "http" -> buildHTTP(x)
    [] K = "controls" -> buildControls(x)
    [] K = "logging" -> buildLogging(x)
    [] K = "options" -> buildOptions(x)
    [] K = "trust-anchors" -> buildTrustAnchors(x)
    [] K = "view" -> buildView(x)
    [] K = "zone" -> buildZone(x)

(***************************************************************************)
(* C1. Apply changes no node it does not model: the raw fragments and the  *)
(* statements of keywords outside the 13 modeled ones are, after an Apply  *)
(* (or the Apply inside Save), the same nodes in the same relative order   *)
(* as before it, whatever the model holds.                                  *)
(***************************************************************************)
C1_UnmodeledUntouched ==
  Applied => Unmodeled(nodes) = Unmodeled(before)

\* an Apply that rewrote the list of a file where a modeled statement
\* stands before an unmodeled node.
C1_Witness ==
  /\ Applied
  /\ nodes # before
  /\ \E i, j \in 1..Len(before) :
       i < j /\ IsModeled(before[i]) /\ ~IsModeled(before[j])
  /\ Unmodeled(before) # <<>>

(***************************************************************************)
(* C2. For each of the ten list keywords K, the statements of keyword K    *)
(* present after Apply are exactly the encodings of the elements of the    *)
(* model's collection, one per element and in the collection's order; an   *)
(* empty collection leaves no statement of keyword K.                       *)
(***************************************************************************)
C2_ListsMirrorModel ==
  Applied =>
    \A K \in ListKeywords :
      LET items == cfg[1][FieldOf(K)]
      IN StmtsOf(nodes, K) = [i \in 1..Len(items) |-> Encoded(K, items[i])]

\* Views emptied after a view was decoded: Apply leaves no view statement,
\* while another list still has its statements.
C2_Witness ==
  /\ Applied
  /\ StmtsOf(before, "view") # <<>>
  /\ cfg[1].Views = <<>>
  /\ StmtsOf(nodes, "view") = <<>>
  /\ \E K \in ListKeywords : StmtsOf(nodes, K) # <<>>

(***************************************************************************)
(* C3. For controls, logging and options: after Apply there is no          *)
(* statement of the keyword when the model's pointer is nil and exactly    *)
(* one when it is set, however many the file held and even when the block  *)
(* has no children; after FromFile the pointer is set exactly when the     *)
(* file holds at least one top-level statement of the keyword.             *)
(***************************************************************************)
C3_Singletons ==
  /\ Applied =>
       \A K \in SingletonKeywords :
         Len(StmtsOf(nodes, K)) = IF cfg[1][FieldOf(K)] = <<>> THEN 0 ELSE 1
  /\ (op = "FromFile" /\ err = "nil") =>
       \A K \in SingletonKeywords :
         (cfg[1][FieldOf(K)] # <<>>) <=> (StmtsOf(nodes, K) # <<>>)

\* a file with two options statements, the last one empty: the decoded
\* pointer is set and Apply leaves one options statement without children.
C3_Witness ==
  /\ Applied
  /\ Len(StmtsOf(before, "options")) = 2
  /\ cfg[1].Options = <<Options0>>
  /\ Len(StmtsOf(nodes, "options")) = 1
  /\ StmtsOf(nodes, "options")[1].Body = <<>>

(***************************************************************************)
(* C4. Idempotence: for any in-memory model M, applying M to an empty node *)
(* list, decoding the result with FromFile and applying the decoded model  *)
(* to an empty node list gives the same statements (keywords, headers and  *)
(* bodies) as the first Apply.                                              *)
(***************************************************************************)
C4_EncodeDecodeEncode ==
  cfg # <<>> =>
    LET E == ApplyNodes(cfg[1], <<>>)
    IN /\ ~FromFilePanics(E)
       /\ ApplyNodes(FromFile(E), <<>>) = E

(***************************************************************************)
(* C5. Round-trip identity: when the model came from FromFile and was not  *)
(* changed, Apply leaves, for every modeled keyword, statements whose      *)
(* token sequences equal those of the statements the file held (words and  *)
(* braces are compared; whitespace, quotes and semicolons are not).        *)
(***************************************************************************)
IsBrace(ch) == ch \in {"{", "}"}

IsSeparator(ch) == IsSpace(ch) \/ ch \in {";", "\""}

RECURSIVE tokenEnd(_, _)
tokenEnd(s, i) ==
  IF i < Len(s) /\ ~IsSeparator(At(s, i)) /\ ~IsBrace(At(s, i))
  THEN tokenEnd(s, i + 1) ELSE i

RECURSIVE tokensFrom(_, _)
\* the tokens of s from offset i on: each brace, and each maximal run of
\* characters that are neither braces nor separators.
tokensFrom(s, i) ==
  IF i >= Len(s) THEN <<>>
  ELSE IF IsSeparator(At(s, i)) THEN tokensFrom(s, i + 1)
  ELSE IF IsBrace(At(s, i)) THEN <<At(s, i)>> \o tokensFrom(s, i + 1)
  ELSE <<Slice(s, i, tokenEnd(s, i))>> \o tokensFrom(s, tokenEnd(s, i))

RECURSIVE nodeTokens(_)
\* the tokens of a node: its header's, then its body's, in order.
nodeTokens(n) ==
  IF ~IsStmt(n) THEN tokensFrom(n.Text, 0)
  ELSE LET RECURSIVE bodyTokens(_)
           bodyTokens(i) ==
             IF i > Len(n.Body) THEN <<>>
             ELSE nodeTokens(n.Body[i]) \o bodyTokens(i + 1)
       IN tokensFrom(n.HeadRaw, 0) \o bodyTokens(1)

keywordTokens(ns, K) ==
  LET ss == StmtsOf(ns, K) IN [i \in 1..Len(ss) |-> nodeTokens(ss[i])]

C5_RoundTripTokens ==
  ( /\ Applied
    /\ pristine
    /\ \A K \in SingletonKeywords : Len(StmtsOf(before, K)) <= 1 )
  => \A K \in ModeledSet : keywordTokens(nodes, K) = keywordTokens(before, K)

(***************************************************************************)
(* C6. As claimed: Apply and Save return an error exactly when no backing  *)
(* tree is available, and then nothing is persisted or changed; FromFile   *)
(* and Apply with a tree never return an error.                             *)
(***************************************************************************)
IsError(e) == e \in {"no-ast", "io"}

C6_ErrorIffNoTree ==
  [][ /\ op' \in ApplyOps /\ op \notin ApplyOps =>
          (IsError(err') <=> (op' = "ApplyNil" /\ ~ast))
      /\ op' = "Save" /\ op # "Save" => (IsError(err') <=> ~ast)
      /\ op' \in ApplyOps \cup {"Save"} /\ op \notin ApplyOps \cup {"Save"}
           /\ IsError(err')
         => nodes' = nodes /\ cfg' = cfg /\ disk' = disk
      /\ op' = "FromFile" => ~IsError(err')
    ]_vars

(***************************************************************************)
(* C6, amended. Apply returns an error exactly when its argument is nil    *)
(* and c.ast is nil. Save returns the missing-tree error exactly when      *)
(* c.ast is nil; with a tree it returns what the external writer returns:  *)
(* nil with the node list persisted, or the writer's error with nothing    *)
(* persisted. On the missing-tree error nothing is persisted and neither   *)
(* the model nor the node list changes. FromFile returns no error.         *)
(***************************************************************************)
C6_MissingTreeError ==
  [][ /\ op' \in ApplyOps /\ op \notin ApplyOps =>
          /\ err' \in {"nil", "no-ast"}
          /\ err' = "no-ast" <=> (op' = "ApplyNil" /\ ~ast)
      /\ op' = "Save" /\ op # "Save" =>
          /\ err' = "no-ast" <=> ~ast
          /\ ast => err' \in {"nil", "io"}
          /\ err' = "nil" => disk' = <<nodes'>>
          /\ err' = "io" => disk' = disk
      /\ op' \in ApplyOps \cup {"Save"} /\ op \notin ApplyOps \cup {"Save"}
           /\ err' = "no-ast"
         => nodes' = nodes /\ cfg' = cfg /\ disk' = disk
      /\ op' = "FromFile" => ~IsError(err')
    ]_vars

\* a Save of a model built in memory over a non-empty node list: it
\* returned the missing-tree error and nothing was persisted or changed.
C6_Witness ==
  /\ op = "Save"
  /\ err = "no-ast"
  /\ ~ast
  /\ cfg # <<>> /\ cfg[1] # Config0
  /\ nodes # <<>>
  /\ disk = <<>>

(***************************************************************************)
(* C7. Decode does not abort: FromFile returns a model for every node      *)
(* list, also when a statement's text is empty or truncated.               *)
(***************************************************************************)
C7_DecodeCompletes ==
  op = "FromFile" => err = "nil" /\ cfg # <<>>

(***************************************************************************)
(* C8. Match-term decode: each element of the list gives one term, by the  *)
(* element's form: a leading '!' negates and the rest is classified        *)
(* again; 'key <name>' is a key reference; an element in braces is a term  *)
(* whose Nested list holds the elements inside the braces; an element with *)
(* '/', more than one ':' or exactly three '.' is an address; anything     *)
(* else is an ACL reference without its quotes.                             *)
(***************************************************************************)
C8_MatchTermsClassified ==
  (codec.kind = "match" /\ codec.stage = "decoded") =>
    codec.decoded = codec.expected

(***************************************************************************)
(* C9. Listen clause: decoding a text with any of port, tls and http in    *)
(* any order before the list gives those values and the decoded list, and  *)
(* decoding the encoding of a decoded value gives that value again.        *)
(***************************************************************************)
C9_ListenRoundTrip ==
  /\ (codec.kind = "listen" /\ codec.stage # "input") =>
       codec.decoded = codec.expected
  /\ (codec.kind = "listen" /\ codec.stage = "redecoded") =>
       codec.redecoded = codec.decoded

(***************************************************************************)
(* C10. Unrecognized children of options: FromFile appends each child      *)
(* statement whose keyword is not in the option table to Options.Other as  *)
(* its (keyword, text) pair, in order, and Apply of the unchanged model    *)
(* ends the options body with one statement per pair, whose keyword and    *)
(* text are those of the original child.                                    *)
(***************************************************************************)
unknownOptionChildren(st) ==
  SelectSeq(st.Body, LAMBDA n : IsStmt(n) /\ n.Keyword \notin OptionKeywords)

C10_OtherPreserved ==
  (Applied /\ pristine /\ StmtsOf(before, "options") # <<>>) =>
    LET olds == StmtsOf(before, "options")
        unk  == unknownOptionChildren(olds[Len(olds)])
        out  == StmtsOf(nodes, "options")[1].Body
        tail == SubSeq(out, Len(out) - Len(unk) + 1, Len(out))
    IN /\ cfg[1].Options[1].Other =
            [i \in 1..Len(unk) |-> [Name |-> unk[i].Keyword, Raw |-> headText(unk[i])]]
       /\ Len(out) >= Len(unk)
       /\ \A i \in 1..Len(unk) :
            /\ IsStmt(tail[i])
            /\ tail[i].Keyword = unk[i].Keyword
            /\ headText(tail[i]) = headText(unk[i])

(***************************************************************************)
(* C11. Control-inet decode: for the address followed by any of the groups *)
(* port, allow, keys and read-only in any order (the order the encoder     *)
(* writes among them), the decoded value has the address, the port, the    *)
(* elements of the allow braces, the key names and the read-only flag that *)
(* the text holds.                                                          *)
(***************************************************************************)
C11_ControlInetDecoded ==
  (codec.kind = "inet" /\ codec.stage = "decoded") =>
    codec.decoded = codec.expected

(***************************************************************************)
(* C12. Trust anchors: an entry '"<name>" <rest>' decodes to a DS item     *)
(* when rest contains 'ds', else to a DNSKEY item when rest contains       *)
(* 'key', else to nothing; the encoder writes '"<name>" <rest>' for each   *)
(* item, and decoding the encoded block gives the same items in the same   *)
(* order.                                                                  *)
(***************************************************************************)
C12_TrustAnchors ==
  codec.kind = "anchors" =>
    /\ codec.stage # "input" => codec.decoded.Items = codec.expected.Items
    /\ codec.stage \in {"encoded", "redecoded"} =>
         LET its == codec.decoded.Items
             out == codec.built.Body
         IN /\ codec.built.Keyword = "trust-anchors"
            /\ Len(out) = Len(its)
            /\ \A i \in 1..Len(its) :
                 headText(out[i]) =
                   "\"" \o its[i].Name \o "\" " \o its[i].DS \o its[i].DNSKey
    /\ codec.stage = "redecoded" => codec.redecoded = codec.decoded

(***************************************************************************)
(* C13. A boolean token is decoded from its first whitespace-separated     *)
(* word alone, without regard to case: 'yes' is true, 'no' is false, any   *)
(* other word and the empty text are absent, never false.  On encode an    *)
(* absent value emits no statement, true emits 'yes' and false 'no'.       *)
(* White space is every character of Unicode's White_Space property.       *)
(***************************************************************************)
C13_BoolTokens ==
  codec.kind = "bool" =>
    /\ codec.stage # "input" => codec.decoded = codec.expected
    /\ codec.stage = "encoded" =>
         LET rec == SelectSeq(codec.built.Body,
                              LAMBDA n : IsStmt(n) /\ n.Keyword = "recursion")
         IN /\ codec.decoded = <<>> => rec = <<>>
            /\ codec.decoded = <<TRUE>> =>
                 Len(rec) = 1 /\ headText(rec[1]) = "recursion yes"
            /\ codec.decoded = <<FALSE>> =>
                 Len(rec) = 1 /\ headText(rec[1]) = "recursion no"

\* U+3000 'No' U+2028 'yes': the first word, between two spaces outside
\* ASCII, decodes to false and is written as 'no'.
C13_Witness ==
  /\ codec.kind = "bool" /\ codec.stage = "encoded"
  /\ codec.runes = <<12288>> \o Runes("No") \o <<8232>> \o Runes("yes")
  /\ codec.decoded = <<FALSE>>
  /\ \E i \in 1..Len(codec.built.Body) :
       headText(codec.built.Body[i]) = "recursion no"

RECURSIVE populatedOnce(_)
\* exactly one of Address, Key, ACLRef and a non-empty Nested is set in the
\* term, and likewise in every term below it.
populatedOnce(t) ==
  /\ Cardinality({ f \in {"Address", "Key", "ACLRef"} : t[f] # "" }
                 \cup (IF t.Nested # <<>> THEN {"Nested"} ELSE {})) = 1
  /\ \A i \in 1..Len(t.Nested) : populatedOnce(t.Nested[i])

(***************************************************************************)
(* C14. Every match term produced by decode, at every nesting depth and    *)
(* for every input text, has exactly one of Address, Key, ACLRef and a     *)
(* non-empty Nested populated.                                              *)
(***************************************************************************)
C14_TermsPopulatedOnce ==
  (codec.kind = "match" /\ codec.stage = "decoded") =>
    \A i \in 1..Len(codec.decoded) : populatedOnce(codec.decoded[i])

\* the children of a block statement that carry keyword kw
childrenOf(st, kw) ==
  SelectSeq(st.Body, LAMBDA n : IsStmt(n) /\ n.Keyword = kw)

(***************************************************************************)
(* C15. Zone primaries are mutually exclusive: a decoded Zone has at most  *)
(* one of PrimariesRef and Primaries populated, and the encoder emits at   *)
(* most one 'primaries' statement per zone.                                *)
(***************************************************************************)
C15_PrimariesExclusive ==
  /\ (codec.kind = "zone" /\ codec.stage # "input") =>
       (codec.decoded.PrimariesRef = "" \/ codec.decoded.Primaries = <<>>)
  /\ (codec.kind \in {"zone", "zonemodel"} /\ codec.stage = "encoded") =>
       Len(childrenOf(codec.built, "primaries")) <= 1

\* the names of a list of zones or views are pairwise distinct.
DistinctNames(xs) ==
  \A i, j \in 1..Len(xs) : xs[i].Name = xs[j].Name => i = j

\* xs with x in the place of its first element of that name, or at the end.
ReplacedOrAppended(old, new, x) ==
  IF \E i \in 1..Len(old) : old[i].Name = x.Name
  THEN LET k == CHOOSE i \in 1..Len(old) :
                  /\ old[i].Name = x.Name
                  /\ \A j \in 1..(i - 1) : old[j].Name # x.Name
       IN /\ Len(new) = Len(old)
          /\ new[k] = x
          /\ \A j \in 1..Len(old) : j # k => new[j] = old[j]
  ELSE new = Append(old, x)

(***************************************************************************)
(* C16. UpsertZone(z) replaces the first top-level zone named z.Name in    *)
(* place, the length and every other position unchanged, or appends z      *)
(* when there is none; so pairwise distinct zone names stay pairwise       *)
(* distinct under UpsertZone and RemoveZone, and likewise view names       *)
(* under UpsertView and RemoveView.                                         *)
(***************************************************************************)
C16_UpsertByName ==
  /\ call.name = "UpsertZone" =>
       ReplacedOrAppended(call.pre.Zones, cfg[1].Zones, call.zone)
  /\ call.name = "UpsertView" =>
       ReplacedOrAppended(call.pre.Views, cfg[1].Views, call.view)
  /\ (call.name \in {"UpsertZone", "RemoveZone"}
        /\ DistinctNames(call.pre.Zones)) => DistinctNames(cfg[1].Zones)
  /\ (call.name \in {"UpsertView", "RemoveView"}
        /\ DistinctNames(call.pre.Views)) => DistinctNames(cfg[1].Views)

C16_Witness ==
  /\ call.name = "UpsertZone" /\ call.n = 2
  /\ call.zone = zA2
  /\ call.pre.Zones = <<zA1, zB1, zC1>>
  /\ cfg[1].Zones = <<zA2, zB1, zC1>>

\* the zones of xs whose name is not name, in their order.
OtherNames(xs, name) == SelectSeq(xs, LAMBDA x : x.Name # name)

(***************************************************************************)
(* C17. RemoveZone(name) returns true exactly when some top-level zone     *)
(* had the name; afterwards no top-level zone has it (every duplicate is   *)
(* gone), the other top-level zones keep their relative order, and the     *)
(* zones nested in views are unchanged, so that GetZone(name) still finds  *)
(* a view-nested zone of the name.                                          *)
(***************************************************************************)
C17_RemoveZone ==
  call.name = "RemoveZone" =>
    LET old == call.pre.Zones
        new == cfg[1].Zones
    IN /\ call.ret = (\E i \in 1..Len(old) : old[i].Name = call.arg)
       /\ \A i \in 1..Len(new) : new[i].Name # call.arg
       /\ new = OtherNames(old, call.arg)
       /\ cfg[1].Views = call.pre.Views
       /\ GetZone(cfg[1], call.arg) = viewZone(call.pre.Views, call.arg, 1)

C17_Witness ==
  /\ call.name = "RemoveZone" /\ call.arg = "example.com" /\ call.ret
  /\ call.pre.Zones = <<zA1, zB1, zA2>>
  /\ cfg[1].Zones = <<zB1>>
  /\ GetZone(cfg[1], "example.com") = <<zA1>>

\* the Config fields other than fld are the same in c and d.
SameBut(c, d, fld) ==
  \A f \in (DOMAIN c) \ {fld} : c[f] = d[f]

(***************************************************************************)
(* C18. UpsertZoneInView(viewName, z): with no view of that name, one new  *)
(* view of that name holding exactly z is appended and the existing views  *)
(* are unchanged; with such a view, the zone named z.Name in the first     *)
(* such view is replaced in place, or z is appended to that view's zones;  *)
(* no other view, nothing else of that view and no top-level zone          *)
(* changes.                                                                 *)
(***************************************************************************)
C18_UpsertZoneInView ==
  call.name = "UpsertZoneInView" =>
    LET old == call.pre.Views
        new == cfg[1].Views
    IN /\ SameBut(cfg[1], call.pre, "Views")
       /\ IF \A i \in 1..Len(old) : old[i].Name # call.arg
          THEN /\ Len(new) = Len(old) + 1
               /\ SubSeq(new, 1, Len(old)) = old
               /\ new[Len(new)].Name = call.arg
               /\ new[Len(new)].Zones = <<call.zone>>
          ELSE LET k == CHOOSE i \in 1..Len(old) :
                          /\ old[i].Name = call.arg
                          /\ \A j \in 1..(i - 1) : old[j].Name # call.arg
               IN /\ Len(new) = Len(old)
                  /\ \A j \in 1..Len(old) : j # k => new[j] = old[j]
                  /\ SameBut(new[k], old[k], "Zones")
                  /\ ReplacedOrAppended(old[k].Zones, new[k].Zones, call.zone)

C18_Witness ==
  /\ call.name = "UpsertZoneInView" /\ call.arg = "internal"
  /\ call.zone = zA2
  /\ Len(call.pre.Views) = 3
  /\ call.pre.Views[2].Zones = <<zC1, zA1, zC1>>
  /\ cfg[1].Views[2].Zones = <<zC1, zA2, zC1>>
  /\ cfg[1].Views[3] = call.pre.Views[3]

\* the place of a node in Apply's order: 0 for a node Apply keeps, else
\* the position of its keyword in the order of the syncs.
ApplyRank(n) ==
  IF ~IsModeled(n) THEN 0
  ELSE CHOOSE k \in 1..Len(ModeledKeywords) : ModeledKeywords[k] = n.Keyword

(***************************************************************************)
(* C19. Apply removes, then appends at the end: after Apply every kept     *)
(* unmodeled node comes before every modeled node, and the modeled nodes   *)
(* are grouped by keyword in the order include, acl, key, key-store,       *)
(* remote-servers, tls, http, controls, logging, options, trust-anchors,   *)
(* view, zone, wherever those blocks stood in the file before.             *)
(***************************************************************************)
C19_AppendedInOrder ==
  Applied =>
    \A i, j \in 1..Len(nodes) :
      i < j => ApplyRank(nodes[i]) <= ApplyRank(nodes[j])

C19_Witness ==
  /\ Applied
  /\ \E i, j \in 1..Len(before) :
       i < j /\ ApplyRank(before[i]) > ApplyRank(before[j])
             /\ ApplyRank(before[j]) > 0
  /\ \E i, j \in 1..Len(nodes) :
       IsModeled(nodes[i]) /\ IsModeled(nodes[j])
         /\ nodes[i].Keyword # nodes[j].Keyword

\* the child keywords parseZone and parseView have a case for.
ZoneChildKeywords ==
  {"type", "file", "primaries", "forwarders", "forward", "allow-update",
   "allow-transfer", "also-notify", "dnssec-policy"}

ViewChildKeywords ==
  {"match-clients", "match-destinations", "recursion", "trust-anchors",
   "zone", "include"}

RECURSIVE recognizedOnly(_, _)
\* every statement in the block, and in the zones nested in a view, has a
\* keyword the decoder of that block knows (kind is "zone" or "view").
recognizedOnly(st, kind) ==
  \A i \in 1..Len(st.Body) :
    IsStmt(st.Body[i]) =>
      IF kind = "zone" THEN st.Body[i].Keyword \in ZoneChildKeywords
      ELSE /\ st.Body[i].Keyword \in ViewChildKeywords
           /\ st.Body[i].Keyword = "zone" => recognizedOnly(st.Body[i], "zone")

\* every child of old with a keyword in known has a child of that keyword
\* in new.
recognizedKept(old, new, known) ==
  \A i \in 1..Len(old.Body) :
    (IsStmt(old.Body[i]) /\ old.Body[i].Keyword \in known) =>
      childrenOf(new, old.Body[i].Keyword) # <<>>

(***************************************************************************)
(* C20. In a modeled block other than options a child with a keyword the   *)
(* decoder does not know is not copied into the model and is absent from   *)
(* the rebuilt block, while every child with a known keyword is still      *)
(* emitted (checked for zone and view blocks).                              *)
(***************************************************************************)
C20_UnknownChildrenDropped ==
  (codec.kind \in {"zone", "view"} /\ codec.stage = "encoded") =>
    /\ recognizedOnly(codec.built, codec.kind)
    /\ recognizedKept(codec.stmt, codec.built,
                      IF codec.kind = "zone" THEN ZoneChildKeywords
                      ELSE ViewChildKeywords)

(***************************************************************************)
(* C21. Control-unix round trip: for a ControlUnix value u with a path     *)
(* without white space, parseControlUnix of the text serializeControlUnix  *)
(* gives for u returns u's Path, Perm, Owner, Group, Keys and ReadOnly.    *)
(***************************************************************************)
C21_ControlUnixRoundTrip ==
  (codec.kind = "unix" /\ codec.stage = "decoded") =>
    codec.decoded = codec.expected

\* the node list of tree t ("f" or "g") now and before the last call.
TreeNodes(t) == IF t = "g" THEN alt.Nodes ELSE nodes

PreNodes(t) == IF t = "g" THEN call.pre.alt.Nodes ELSE call.pre.nodes

\* the last call was an Apply or a Save that ran its syncs.
Synchronized == call.name \in {"Apply", "Save"} /\ call.done # {}

(***************************************************************************)
(* C22. Apply is idempotent on the node list: with the model unchanged, an *)
(* Apply or a Save on a tree the model was already applied to leaves the   *)
(* tree with the same nodes (keywords, headers and bodies) as before, and  *)
(* the number of nodes does not grow.                                       *)
(***************************************************************************)
C22_ApplyIdempotent ==
  (Synchronized /\ call.tree \in call.synced) =>
    /\ TreeNodes(call.tree) = PreNodes(call.tree)
    /\ Len(TreeNodes(call.tree)) <= Len(PreNodes(call.tree))

C22_Witness ==
  /\ Synchronized /\ call.tree \in call.synced
  /\ call.n = 2
  /\ Unmodeled(TreeNodes(call.tree)) # <<>>
  /\ \E i \in 1..Len(TreeNodes(call.tree)) : IsModeled(TreeNodes(call.tree)[i])
  /\ cfg[1].Options # <<>>

(***************************************************************************)
(* C23. Apply(f) with a tree f other than the current backing tree changes *)
(* only f's node list: the previous backing tree's nodes and the model are *)
(* unchanged, and the backing tree becomes f, so that a following Save     *)
(* applies to f and persists f.  Apply(nil) works on the current backing   *)
(* tree and leaves the back-reference as it is.                             *)
(***************************************************************************)
C23_ApplyRebinds ==
  /\ (call.name = "Apply" /\ err = "nil") =>
       /\ cfg = call.pre.cfg
       /\ disk = call.pre.disk
       /\ \A t \in {"f", "g"} : t # call.tree => TreeNodes(t) = PreNodes(t)
       /\ TreeNodes(call.tree) = ApplyNodes(cfg[1], PreNodes(call.tree))
       /\ Backing = call.tree
       /\ call.target # "nil" => call.tree = call.target
       /\ call.target = "nil" => call.tree = call.pre.backing
  /\ (call.name = "Save" /\ err # "no-ast") =>
       /\ cfg = call.pre.cfg
       /\ call.tree = call.pre.backing /\ Backing = call.pre.backing
       /\ \A t \in {"f", "g"} : t # call.tree => TreeNodes(t) = PreNodes(t)
       /\ TreeNodes(call.tree) = ApplyNodes(cfg[1], PreNodes(call.tree))
       /\ err = "nil" => disk = <<TreeNodes(call.tree)>>

C23_Witness ==
  /\ call.name = "Save" /\ err = "nil" /\ call.n = 2
  /\ pristine
  /\ call.pre.backing = "g"
  /\ nodes # <<>> /\ alt.Nodes # <<>>
  /\ disk = <<alt.Nodes>>
  /\ alt.Nodes # nodes
  /\ nodes # ApplyNodes(cfg[1], nodes)

\* the zone statements for name among the nodes Apply emits for c.
emittedZones(c, name) ==
  SelectSeq(ApplyNodes(c, <<>>),
            LAMBDA n : n.Keyword = "zone" /\ headNameAfter(n.HeadRaw) = name)

(***************************************************************************)
(* C24. A zone reference GetZone(n) returned stays bound to the zone named *)
(* n across later calls on other names: after RemoveZone(m) or UpsertZone  *)
(* of a zone named m, m different from n, reading through the reference    *)
(* yields the zone named n, and a field written through it is visible in   *)
(* c.Zones and in the nodes a following Apply emits.                        *)
(***************************************************************************)
C24_ReferenceStaysBound ==
  (ref.held /\ ref.others) =>
    /\ refZone(ref, cfg[1]).Name = ref.name
    /\ ref.wrote =>
         /\ GetZone(cfg[1], ref.name) # <<>>
         /\ GetZone(cfg[1], ref.name)[1].DNSSECPolicy = "default"
         /\ ref.where = "top" =>
              \E i \in 1..Len(emittedZones(cfg[1], ref.name)) :
                childrenOf(emittedZones(cfg[1], ref.name)[i],
                           "dnssec-policy") # <<>>

====
